---- MODULE Spec2Model ----
(***************************************************************************)
(* The protocol and session layer of dart_studio-python: the DART Studio   *)
(* server (dartstudio_code.py, code_in-dartstudio.py), its function        *)
(* registry and execution backend, and the byte streams between the        *)
(* server's connection workers and their peers (dart_link.py).             *)
(*                                                                         *)
(* JSON values are tagged records: [t |-> "null"], [t |-> "str", v |-> s], *)
(* [t |-> "num", v |-> n], [t |-> "bool", v |-> b], [t |-> "list",         *)
(* v |-> seq], [t |-> "obj", v |-> record].  Numbers that are fractions in *)
(* the source (speeds) are counted in hundredths: 0.2 is 20.  Responses    *)
(* are Python dicts built by the server; they are records whose "status"   *)
(* and "message" are strings.  A message text built with an f-string keeps *)
(* its fixed English part and the formatted name; the text of a formatted  *)
(* exception is left out.  code_in-dartstudio.py appends Korean and        *)
(* Chinese translations to the same English texts.                         *)
(***************************************************************************)
EXTENDS Integers, Sequences, FiniteSets, TLC

VARIABLES
    robot,          \* the execution backend shared by all workers
    status,         \* per connection: "free", "open", "peer_closed"
    authenticated,  \* per connection: handle_client's local flag
    c2s,            \* per connection: bytes sent by the peer, not yet read by the worker
    s2c,            \* per connection: response frames sent by the worker, not yet read
    waiting,        \* per connection: the peer is blocked in _send_recv_internal
    nsent,          \* per connection: request frames the peer has sent
    nrecv,          \* per connection: response frames the peer has read
    lastRead,       \* per connection: the response the peer's last receive returned
    authOk,         \* per connection: an auth message was answered status=ok on it
    nreplied,       \* per connection: response frames the worker has sent
    nframes,        \* per connection: delimiters (frames) the worker has consumed
    last,           \* the last iteration of a worker's loop, on any connection
    link,           \* the DartLink object and the position of its caller in it
    net,            \* the network and the server as the DartLink object meets them
    worker,         \* per connection: the thread that runs handle_client for it
    arm             \* the logic layer: the operation of ArmLogic called last

vars == <<robot, status, authenticated, c2s, s2c, waiting, nsent, nrecv,
          lastRead, authOk, nreplied, nframes, last, link, net, worker, arm>>

-----------------------------------------------------------------------------
(* Bounds of the model *)

MaxCmds == 3
MaxReqs == 2

Conns == {"c1", "c2"}

-----------------------------------------------------------------------------
(* JSON values and Python dict access *)

Null == [t |-> "null"]
Str(s) == [t |-> "str", v |-> s]
Num(n) == [t |-> "num", v |-> n]
Bool(b) == [t |-> "bool", v |-> b]
List(s) == [t |-> "list", v |-> s]
Obj(f) == [t |-> "obj", v |-> f]
EmptyObj == [t |-> "obj", v |-> <<>>]

\* dict.get(k): None when the key is missing
Get(o, k) == IF k \in DOMAIN o.v THEN o.v[k] ELSE Null
\* dict.get(k, d)
GetD(o, k, d) == IF k \in DOMAIN o.v THEN o.v[k] ELSE d
\* dict-style read of a response built by the server
RGet(r, k) == IF k \in DOMAIN r THEN r[k] ELSE "None"

\* str() of a JSON value inside an f-string (the names that occur)
Repr(x) == IF x.t = "str" THEN x.v ELSE IF x.t = "null" THEN "None" ELSE "?"

\* len(x): defined for lists and strings, TypeError otherwise
HasLen(x) == x.t \in {"list", "str"}
PyLen(x) == IF x.t = "list" THEN Len(x.v) ELSE 0

-----------------------------------------------------------------------------
(* Program constants *)

DEFAULT_TOKEN == "TEST_TOKEN_123"
NumPositions == 6
\* the bounds of the client's speed check, in hundredths: 0.01 and 1.0
MinSpeed == 1
MaxSpeed == 100
InitialPoseX == 400
InitialPoseZ == 300

-----------------------------------------------------------------------------
(* The execution backend.  kind "DoosanRobotController" is the backend of  *)
(* dartstudio_code.py (initialized tells whether initialize_robot          *)
(* succeeded); kind "RobotSimulator" is the backend of                     *)
(* code_in-dartstudio.py.  hwok is the outcome of the vendor API call a    *)
(* controller method makes: FALSE when the call raises.                    *)

Zero6 == List(<<0, 0, 0, 0, 0, 0>>)

DoosanRobotController(init) ==
    [kind |-> "DoosanRobotController", initialized |-> init,
     current_joints |-> Zero6, current_pose |-> Zero6,
     digital_outputs |-> <<>>, robot_state |-> "n/a"]

RobotSimulator ==
    [kind |-> "RobotSimulator", initialized |-> TRUE,
     current_joints |-> Zero6,
     current_pose |-> List(<<InitialPoseX, 0, InitialPoseZ, 0, 0, 0>>),
     digital_outputs |-> <<>>, robot_state |-> "IDLE"]

\* the outcome of a backend method: its return value and the backend after it
BRet(ret, rb) == [ret |-> ret, robot |-> rb]

move_joint(rb, positions, speed, hwok) ==
    IF rb.kind = "RobotSimulator"
    THEN BRet(TRUE, [rb EXCEPT !.current_joints = positions])
    ELSE IF ~rb.initialized THEN BRet(FALSE, rb)
    ELSE IF hwok THEN BRet(TRUE, [rb EXCEPT !.current_joints = positions])
    ELSE BRet(FALSE, rb)

move_linear(rb, positions, speed, hwok) ==
    IF rb.kind = "RobotSimulator"
    THEN BRet(TRUE, [rb EXCEPT !.current_pose = positions])
    ELSE IF ~rb.initialized THEN BRet(FALSE, rb)
    ELSE IF hwok THEN BRet(TRUE, [rb EXCEPT !.current_pose = positions])
    ELSE BRet(FALSE, rb)

SetPin(do, pin, value) ==
    [p \in (DOMAIN do) \cup {pin} |-> IF p = pin THEN value ELSE do[p]]

set_digital_output(rb, pin, value, hwok) ==
    IF rb.kind = "RobotSimulator"
    THEN BRet(TRUE, [rb EXCEPT !.digital_outputs = SetPin(@, pin, value)])
    ELSE IF ~rb.initialized THEN BRet(FALSE, rb)
    ELSE IF hwok THEN BRet(TRUE, [rb EXCEPT !.digital_outputs = SetPin(@, pin, value)])
    ELSE BRet(FALSE, rb)

\* the simulator reads every input as False; the controller returns the
\* pin's level, or False when it is not initialized or the API call raises
get_digital_input(rb, pin, hwok) ==
    IF rb.kind = "RobotSimulator" THEN BRet(FALSE, rb)
    ELSE IF ~rb.initialized THEN BRet(FALSE, rb)
    ELSE BRet(hwok, rb)

\* an emergency stop that leaves the simulated state as it is
emergency_stop_unrecorded(rb, hwok) ==
    IF rb.kind = "RobotSimulator" THEN BRet(TRUE, rb)
    ELSE IF rb.initialized /\ ~hwok THEN BRet(FALSE, rb)
    ELSE BRet(TRUE, rb)

emergency_stop(rb, hwok) ==
    IF rb.kind = "RobotSimulator"
    THEN BRet(TRUE, [rb EXCEPT !.robot_state = "EMERGENCY_STOPPED"])
    ELSE IF rb.initialized /\ ~hwok THEN BRet(FALSE, rb)
    ELSE BRet(TRUE, rb)

reset_robot(rb, hwok) ==
    IF rb.kind = "RobotSimulator"
    THEN BRet(TRUE, [rb EXCEPT !.robot_state = "IDLE"])
    ELSE IF rb.initialized /\ ~hwok THEN BRet(FALSE, rb)
    ELSE BRet(TRUE, rb)

get_robot_state(rb, hwok) ==
    IF rb.kind = "RobotSimulator"
    THEN BRet([robot_state |-> rb.robot_state, is_moving |-> FALSE, is_ready |-> TRUE], rb)
    ELSE IF ~rb.initialized THEN BRet([state |-> "NOT_INITIALIZED"], rb)
    ELSE IF hwok
    THEN BRet([robot_state |-> "READY", current_joints |-> rb.current_joints,
               current_pose |-> rb.current_pose, is_moving |-> FALSE,
               is_ready |-> TRUE], rb)
    ELSE BRet([state |-> "ERROR"], rb)

-----------------------------------------------------------------------------
(* The function registry.  An outcome is what a Python function does: it   *)
(* returns a response (exc = "none") or raises (exc names the exception).  *)
(* robot is the backend afterwards; calls is the trace of what was done,   *)
(* in order: an entry of op "dispatch" for each command handed to          *)
(* handle_function_call and an entry for each backend operation invoked,   *)
(* each with the position of its command; route is the branch of           *)
(* process_message that produced the answer.                               *)

Ret(resp, rb, calls) ==
    [exc |-> "none", resp |-> resp, robot |-> rb, calls |-> calls, route |-> "none"]

Exc(name, rb, calls) ==
    [exc |-> name, resp |-> [status |-> "raised"], robot |-> rb, calls |-> calls,
     route |-> "none"]

Error(text) == [status |-> "error", message |-> text]

Call(op, i) == <<[op |-> op, cmd |-> i]>>

\* the answer of execute_move_j and execute_move_l once the backend returned b
Moved(b, name, op, positions, speed, i) ==
    IF b.ret
    THEN Ret([status |-> "ok", message |-> name \o " completed",
              positions |-> positions, speed |-> speed], b.robot, Call(op, i))
    ELSE Ret(Error(name \o " failed"), b.robot, Call(op, i))

\* a check that refuses short vectors only
WrongLengthShort(positions) == PyLen(positions) < NumPositions

\* if len(positions) != 6
WrongLength(positions) == PyLen(positions) # NumPositions

execute_move_j(args, rb, hwok, i) ==
    IF args.t # "obj" THEN Exc("AttributeError", rb, <<>>)
    ELSE LET positions == GetD(args, "positions", List(<<>>))
             speed == GetD(args, "speed", Num(20))
         IN IF ~HasLen(positions) THEN Exc("TypeError", rb, <<>>)
            ELSE IF WrongLength(positions)
            THEN Ret(Error("MoveJ requires 6 joint positions"), rb, <<>>)
            ELSE IF positions.t # "list" /\ rb.kind = "RobotSimulator"
            THEN Ret(Error("MoveJ error"), rb, Call("move_joint", i))
            ELSE Moved(move_joint(rb, positions, speed, hwok /\ speed.t = "num"),
                       "MoveJ", "move_joint", positions, speed, i)

execute_move_l(args, rb, hwok, i) ==
    IF args.t # "obj" THEN Exc("AttributeError", rb, <<>>)
    ELSE LET positions == GetD(args, "positions", List(<<>>))
             speed == GetD(args, "speed", Num(20))
         IN IF ~HasLen(positions) THEN Exc("TypeError", rb, <<>>)
            ELSE IF WrongLength(positions)
            THEN Ret(Error("MoveL requires 6 pose values"), rb, <<>>)
            ELSE IF positions.t # "list" /\ rb.kind = "RobotSimulator"
            THEN Ret(Error("MoveL error"), rb, Call("move_linear", i))
            ELSE Moved(move_linear(rb, positions, speed, hwok /\ speed.t = "num"),
                       "MoveL", "move_linear", positions, speed, i)

\* the answer of execute_set_do once the backend returned b
DoSet(b, pin, value, i) ==
    IF b.ret
    THEN Ret([status |-> "ok", message |-> "DO set", pin |-> pin, value |-> value],
             b.robot, Call("set_digital_output", i))
    ELSE Ret(Error("Failed to set DO"), b.robot, Call("set_digital_output", i))

\* a truth test (if not pin): 0 and False count as missing
IsFalsy(x) == x \in {Null, Num(0), Bool(FALSE)}

\* x is None: the key is absent (args.get returns None) or its value is null
IsNone(x) == x = Null

execute_set_do(args, rb, hwok, i) ==
    IF args.t # "obj" THEN Exc("AttributeError", rb, <<>>)
    ELSE LET pin == Get(args, "pin")
             value == Get(args, "value")
         IN IF IsNone(pin) \/ IsNone(value)
            THEN Ret(Error("SetDO requires pin and value"), rb, <<>>)
            ELSE DoSet(set_digital_output(rb, pin, value, hwok), pin, value, i)

\* the answer of execute_get_di once the backend returned b
DiRead(b, pin, i) ==
    Ret([status |-> "ok", pin |-> pin, value |-> Bool(b.ret)],
        b.robot, Call("get_digital_input", i))

execute_get_di(args, rb, hwok, i) ==
    IF args.t # "obj" THEN Exc("AttributeError", rb, <<>>)
    ELSE LET pin == Get(args, "pin")
         IN IF IsNone(pin)
            THEN Ret(Error("GetDI requires pin"), rb, <<>>)
            ELSE DiRead(get_digital_input(rb, pin, hwok), pin, i)

\* time.sleep(ms / 1000.0) raises for a value that is no number and for a
\* negative one; execute_wait_ms catches it
execute_wait_ms(args, rb, hwok, i) ==
    IF args.t # "obj" THEN Exc("AttributeError", rb, <<>>)
    ELSE LET ms == GetD(args, "ms", Num(0))
         IN IF ms.t = "num" /\ ms.v >= 0
            THEN Ret([status |-> "ok", message |-> "Waited"], rb, Call("sleep", i))
            ELSE Ret(Error("Wait error"), rb, <<>>)

execute_get_current_pose(args, rb, hwok, i) ==
    Ret([status |-> "ok", pose |-> rb.current_pose], rb, Call("get_current_pose", i))

execute_get_joint_angles(args, rb, hwok, i) ==
    Ret([status |-> "ok", joints |-> rb.current_joints], rb, Call("get_joint_angles", i))

\* the answer of execute_emergency_stop and execute_reset_robot once the
\* backend returned b
Done(b, okText, failText, op, i) ==
    IF b.ret
    THEN Ret([status |-> "ok", message |-> okText], b.robot, Call(op, i))
    ELSE Ret(Error(failText), b.robot, Call(op, i))

execute_emergency_stop(args, rb, hwok, i) ==
    Done(emergency_stop(rb, hwok), "Emergency stop executed",
         "Emergency stop failed", "emergency_stop", i)

execute_reset_robot(args, rb, hwok, i) ==
    Done(reset_robot(rb, hwok), "Robot reset completed",
         "Robot reset failed", "reset_robot", i)

\* the answer of execute_get_robot_state once the backend returned b
StateRead(b, i) ==
    Ret([status |-> "ok", robot_state |-> b.ret], b.robot, Call("get_robot_state", i))

execute_get_robot_state(args, rb, hwok, i) ==
    StateRead(get_robot_state(rb, hwok), i)

\* a chain whose last branch handles every other name as a state query
RegistryWithDefault(function, args, rb, hwok, i) ==
    IF function = Str("MoveJ") THEN execute_move_j(args, rb, hwok, i)
    ELSE IF function = Str("MoveL") THEN execute_move_l(args, rb, hwok, i)
    ELSE IF function = Str("SetDO") THEN execute_set_do(args, rb, hwok, i)
    ELSE IF function = Str("GetDI") THEN execute_get_di(args, rb, hwok, i)
    ELSE IF function = Str("WaitMs") THEN execute_wait_ms(args, rb, hwok, i)
    ELSE IF function = Str("GetCurrentPose") THEN execute_get_current_pose(args, rb, hwok, i)
    ELSE IF function = Str("GetJointAngles") THEN execute_get_joint_angles(args, rb, hwok, i)
    ELSE IF function = Str("EmergencyStop") THEN execute_emergency_stop(args, rb, hwok, i)
    ELSE IF function = Str("ResetRobot") THEN execute_reset_robot(args, rb, hwok, i)
    ELSE execute_get_robot_state(args, rb, hwok, i)

\* the if/elif chain on the function name
Registry(function, args, rb, hwok, i) ==
    IF function = Str("MoveJ") THEN execute_move_j(args, rb, hwok, i)
    ELSE IF function = Str("MoveL") THEN execute_move_l(args, rb, hwok, i)
    ELSE IF function = Str("SetDO") THEN execute_set_do(args, rb, hwok, i)
    ELSE IF function = Str("GetDI") THEN execute_get_di(args, rb, hwok, i)
    ELSE IF function = Str("WaitMs") THEN execute_wait_ms(args, rb, hwok, i)
    ELSE IF function = Str("GetCurrentPose") THEN execute_get_current_pose(args, rb, hwok, i)
    ELSE IF function = Str("GetJointAngles") THEN execute_get_joint_angles(args, rb, hwok, i)
    ELSE IF function = Str("EmergencyStop") THEN execute_emergency_stop(args, rb, hwok, i)
    ELSE IF function = Str("ResetRobot") THEN execute_reset_robot(args, rb, hwok, i)
    ELSE IF function = Str("GetRobotState") THEN execute_get_robot_state(args, rb, hwok, i)
    ELSE Ret(Error("Unknown function: " \o Repr(function)), rb, <<>>)

\* message.get('function') is outside the try block: a command that is no
\* mapping raises out of handle_function_call; everything the registry
\* raises is turned into an error response
\* the except clause of handle_function_call
CatchAll(r) ==
    IF r.exc # "none"
    THEN Ret(Error("Function execution error"), r.robot, r.calls)
    ELSE r

\* the call of handle_function_call for command i enters the trace
Dispatched(i, r) == [r EXCEPT !.calls = Call("dispatch", i) \o @]

handle_function_call(message, rb, hwok, i) ==
    IF message.t # "obj" THEN Exc("AttributeError", rb, Call("dispatch", i))
    ELSE Dispatched(i, CatchAll(Registry(Get(message, "function"),
                                         GetD(message, "args", EmptyObj),
                                         rb, hwok, i)))

-----------------------------------------------------------------------------
(* The dispatcher *)

\* the for loop of handle_sequence from command i on; hw[i] is the outcome
\* of the vendor API call made for command i.  SeqStep is the loop body
\* once handle_function_call has returned r (or raised) for command i.
RECURSIVE SeqLoop(_, _, _, _, _, _)
RECURSIVE SeqStep(_, _, _, _, _, _)

\* a loop that never breaks
ShouldBreakNever(result) == FALSE

\* if result.get('status') != 'ok': break
ShouldBreak(result) == RGet(result, "status") # "ok"

SeqStep(cmds, i, r, results, calls, hw) ==
    IF r.exc # "none"
    THEN [exc |-> r.exc, results |-> results, robot |-> r.robot,
          calls |-> calls \o r.calls]
    ELSE IF ShouldBreak(r.resp)
    THEN [exc |-> "none", results |-> Append(results, r.resp),
          robot |-> r.robot, calls |-> calls \o r.calls]
    ELSE SeqLoop(cmds, i + 1, r.robot, Append(results, r.resp),
                 calls \o r.calls, hw)

SeqLoop(cmds, i, rb, results, calls, hw) ==
    IF i > Len(cmds)
    THEN [exc |-> "none", results |-> results, robot |-> rb, calls |-> calls]
    ELSE SeqStep(cmds, i, handle_function_call(cmds[i], rb, hw[i], i),
                 results, calls, hw)

\* an envelope that counts the commands that succeeded
EnvelopeCountsOk(commands, l) ==
    IF l.exc # "none"
    THEN Exc(l.exc, l.robot, l.calls)
    ELSE Ret([status |-> "ok",
              total_commands |-> Len(commands.v),
              executed_commands |->
                  Cardinality({j \in 1..Len(l.results) :
                                  RGet(l.results[j], "status") = "ok"}),
              results |-> l.results], l.robot, l.calls)

\* the envelope handle_sequence returns after its loop ended as l
Envelope(commands, l) ==
    IF l.exc # "none"
    THEN Exc(l.exc, l.robot, l.calls)
    ELSE Ret([status |-> "ok",
              total_commands |-> Len(commands.v),
              executed_commands |-> Len(l.results),
              results |-> l.results], l.robot, l.calls)

\* enumerate(commands) raises TypeError for a value that cannot be iterated
SeqOver(commands, rb, hw) ==
    IF commands.t # "list"
    THEN Exc("TypeError", rb, <<>>)
    ELSE Envelope(commands, SeqLoop(commands.v, 1, rb, <<>>, <<>>, hw))

handle_sequence(message, rb, hw) ==
    SeqOver(GetD(message, "commands", List(<<>>)), rb, hw)

Routed(r, route) == [r EXCEPT !.route = route]

\* a check that lets a message without a token pass
InvalidTokenIfPresent(token) == token # Null /\ token # Str(DEFAULT_TOKEN)

\* if token != self.token
InvalidToken(token) == token # Str(DEFAULT_TOKEN)

\* a check that guards sequences only
NeedsAuthSequenceOnly(auth, msg_type) == ~auth /\ msg_type = Str("sequence")

\* a check that guards the two command types only
NeedsAuthCommandTypes(auth, msg_type) ==
    ~auth /\ msg_type \in {Str("call"), Str("sequence")}

\* if not authenticated and msg_type != 'ping'
NeedsAuth(auth, msg_type) == ~auth /\ msg_type # Str("ping")

\* the branches of process_message on the message's type and token
Route(message, msg_type, token, auth, rb, hw) ==
    IF InvalidToken(token)
    THEN Routed(Ret(Error("Invalid token"), rb, <<>>), "token")
    ELSE IF msg_type = Str("auth")
    THEN Routed(Ret([status |-> "ok", message |-> "Authentication successful"],
                    rb, <<>>), "auth")
    ELSE IF NeedsAuth(auth, msg_type)
    THEN Routed(Ret(Error("Authentication required"), rb, <<>>), "auth_required")
    ELSE IF msg_type = Str("ping")
    THEN Routed(Ret([status |-> "ok", pong |-> TRUE], rb, <<>>), "ping")
    ELSE IF msg_type = Str("call")
    THEN Routed(handle_function_call(message, rb, hw[1], 1), "call")
    ELSE IF msg_type = Str("sequence")
    THEN Routed(handle_sequence(message, rb, hw), "sequence")
    ELSE Routed(Ret(Error("Unknown message type: " \o Repr(msg_type)), rb, <<>>),
                "unknown")

\* message.get raises AttributeError for a JSON value that is no mapping
process_message(message, auth, rb, hw) ==
    IF message.t # "obj" THEN Exc("AttributeError", rb, <<>>)
    ELSE Route(message, Get(message, "type"), Get(message, "token"), auth, rb, hw)

-----------------------------------------------------------------------------
(* The byte stream.  The frame of a message is its JSON text followed by   *)
(* one newline; the text is carried as two halves so that a read can end   *)
(* inside it.  id is the position of the frame among the frames its peer   *)
(* sent on the connection.  Halves 1 and 2 are the text cut inside a token *)
(* (a string, a number), halves 3 and 4 the text cut between two tokens.   *)

NL == [k |-> "nl"]
Half(m, id, h) == [k |-> "text", m |-> m, id |-> id, h |-> h]

\* two pieces that are the two halves of one text, cut at the same place
Halves(a, b) ==
    /\ a.k = "text" /\ b.k = "text"
    /\ <<a.h, b.h>> \in {<<1, 2>>, <<3, 4>>}
    /\ a.id = b.id
    /\ a.m = b.m

\* json.dumps(payload) + "\n"
Frame(m, id) == <<Half(m, id, 1), Half(m, id, 2), NL>>

RECURSIVE LStrip(_)
LStrip(d) == IF d # <<>> /\ Head(d) = NL THEN LStrip(Tail(d)) ELSE d

RECURSIVE RStrip(_)
RStrip(d) ==
    IF d # <<>> /\ d[Len(d)] = NL THEN RStrip(SubSeq(d, 1, Len(d) - 1)) ELSE d

\* str.strip() of the received data
Strip(d) == RStrip(LStrip(d))

\* json.loads: the text of exactly one JSON value, or JSONDecodeError.  A
\* newline between two tokens is whitespace to the decoder; a newline
\* inside a token is an error
Decodes(d) ==
    \/ Len(d) = 2 /\ Halves(d[1], d[2])
    \/ /\ Len(d) = 3
       /\ d[2] = NL
       /\ Halves(d[1], d[3])
       /\ d[1].h = 3

NumNL(d) == Cardinality({i \in 1..Len(d) : d[i] = NL})

\* a flag set by every response of status ok
NextAuthenticatedAnyOk(auth, message, response) ==
    IF RGet(response, "status") = "ok" THEN TRUE ELSE auth

\* a flag assigned on every message instead of latched
NextAuthenticatedAssigned(auth, message, response) ==
    Get(message, "type") = Str("auth") /\ RGet(response, "status") = "ok"

\* a flag that an error response clears
NextAuthenticatedUnlessError(auth, message, response) ==
    IF RGet(response, "status") = "error" THEN FALSE
    ELSE IF Get(message, "type") = Str("auth") THEN TRUE
    ELSE auth

\* the assignment to the worker's flag after process_message
NextAuthenticated(auth, message, response) ==
    IF Get(message, "type") = Str("auth") /\ RGet(response, "status") = "ok"
    THEN TRUE
    ELSE auth

\* what the worker does with the outcome r of process_message: the except
\* clause for a processing exception, or the flag update and the response
Respond(message, id, auth, r, embedded) ==
    IF r.exc # "none"
    THEN [response |-> Error("Processing error"), authenticated |-> auth,
          robot |-> r.robot, calls |-> r.calls, route |-> r.route,
          decoded |-> TRUE, message |-> message, reqid |-> id,
          embedded |-> embedded]
    ELSE [response |-> r.resp,
          authenticated |-> NextAuthenticated(auth, message, r.resp),
          robot |-> r.robot, calls |-> r.calls, route |-> r.route,
          decoded |-> TRUE, message |-> message, reqid |-> id,
          embedded |-> embedded]

\* the worker's handling of the text it received, stripped; embedded
\* tells that a delimiter is left inside the text
HandleText(text, auth, rb, hw) ==
    IF ~Decodes(text)
    THEN [response |-> Error("Invalid JSON"), authenticated |-> auth,
          robot |-> rb, calls |-> <<>>,
          route |-> "undecodable", decoded |-> FALSE,
          message |-> Null, reqid |-> 0, embedded |-> NumNL(text) > 0]
    ELSE Respond(text[1].m, text[1].id, auth,
                 process_message(text[1].m, auth, rb, hw), NumNL(text) > 0)

\* one iteration of the worker's loop on the non-empty data it received:
\* the response it sends, its flag and the backend afterwards
HandleData(data, auth, rb, hw) == HandleText(Strip(data), auth, rb, hw)

-----------------------------------------------------------------------------
(* Messages *)

WRONG_TOKEN == "WRONG_TOKEN"

Msg(token, type) == Obj([token |-> Str(token), type |-> Str(type)])

CallMsg(token, function, args) ==
    Obj([token |-> Str(token), type |-> Str("call"),
         function |-> Str(function), args |-> args])

SeqMsg(token, cmds) ==
    Obj([token |-> Str(token), type |-> Str("sequence"), commands |-> List(cmds)])

Cmd(function, args) == Obj([function |-> Str(function), args |-> args])

\* the payloads the client builds: connect, ping, call (args or {}) and
\* sequence
auth_payload(token) == Msg(token, "auth")
ping_payload(token) == Msg(token, "ping")
call_payload(token, function, args) ==
    CallMsg(token, function,
            IF args \in {Null, EmptyObj} THEN EmptyObj ELSE args)
sequence_payload(token, commands) == SeqMsg(token, commands)

Target6 == List(<<10, 20, 30, 40, 50, 60>>)
Five == List(<<0, 0, 0, 0, 0>>)
Seven == List(<<0, 0, 0, 0, 0, 0, 0>>)

MoveArgs(positions) == Obj([positions |-> positions, speed |-> Num(20)])

\* the commands sequences are built from: one that moves the robot, one the
\* registry rejects, one safety command, and an entry that is no mapping
SeqCmds ==
    {Cmd("MoveJ", MoveArgs(Target6)), Cmd("MoveJ", MoveArgs(Five)),
     Cmd("EmergencyStop", EmptyObj), Num(7)}

RECURSIVE SeqsUpTo(_, _)
SeqsUpTo(S, n) ==
    IF n = 0 THEN {<<>>}
    ELSE LET shorter == SeqsUpTo(S, n - 1)
         IN shorter \cup {Append(q, x) : q \in {r \in shorter : Len(r) = n - 1}, x \in S}

\* the args of a move at an explicit speed (in hundredths)
MoveArgsAt(positions, speed) ==
    Obj([positions |-> positions, speed |-> Num(speed)])

\* speeds at and beyond the bounds of the client's check
Speeds == {0, MinSpeed, MaxSpeed, MaxSpeed + 1}

CallArgs ==
    {<<f, MoveArgsAt(Target6, sp)>> : f \in {"MoveJ", "MoveL"}, sp \in Speeds} \cup
    {<<"MoveJ", MoveArgs(Target6)>>, <<"MoveJ", MoveArgs(Five)>>,
     <<"MoveJ", MoveArgs(Seven)>>, <<"MoveJ", EmptyObj>>, <<"MoveJ", Null>>,
     <<"MoveJ", MoveArgs(List(<<>>))>>, <<"MoveJ", MoveArgs(Zero6)>>,
     <<"MoveL", MoveArgs(Target6)>>, <<"MoveL", MoveArgs(Five)>>,
     <<"MoveL", MoveArgs(Seven)>>, <<"MoveL", EmptyObj>>,
     <<"SetDO", Obj([pin |-> Num(0), value |-> Bool(FALSE)])>>,
     <<"SetDO", Obj([pin |-> Num(0)])>>,
     <<"SetDO", Obj([pin |-> Null, value |-> Bool(TRUE)])>>,
     <<"GetDI", Obj([pin |-> Null])>>,
     <<"GetDI", Obj([pin |-> Num(0)])>>, <<"GetDI", EmptyObj>>,
     <<"WaitMs", Obj([ms |-> Num(5)])>>,
     <<"GetCurrentPose", EmptyObj>>, <<"GetJointAngles", EmptyObj>>,
     <<"EmergencyStop", EmptyObj>>, <<"ResetRobot", EmptyObj>>,
     <<"GetRobotState", EmptyObj>>, <<"Fly", EmptyObj>>}

\* every message shape a connection can receive in one frame
ConnMsgs ==
    {Msg(tk, ty) : tk \in {DEFAULT_TOKEN, WRONG_TOKEN},
                   ty \in {"auth", "ping", "call", "sequence", "status"}}
    \cup {Obj([type |-> Str(ty)]) : ty \in {"auth", "ping", "call", "sequence", "status"}}
    \cup {Obj([token |-> Str(DEFAULT_TOKEN)]), Obj([token |-> Str(WRONG_TOKEN)]),
          Obj([token |-> Null, type |-> Str("auth")]), Num(7)}
    \cup {CallMsg(DEFAULT_TOKEN, fa[1], fa[2]) : fa \in CallArgs}
    \cup {CallMsg(WRONG_TOKEN, "EmergencyStop", EmptyObj),
          Obj([token |-> Str(DEFAULT_TOKEN), type |-> Str("call")]),
          Obj([token |-> Str(DEFAULT_TOKEN), type |-> Str("sequence"),
               commands |-> Null]),
          SeqMsg(WRONG_TOKEN, <<Cmd("EmergencyStop", EmptyObj)>>)}
    \cup {SeqMsg(DEFAULT_TOKEN, q) : q \in SeqsUpTo(SeqCmds, MaxCmds)}

\* the messages sent over the byte streams
WireMsgs ==
    {Msg(DEFAULT_TOKEN, "auth"), Msg(WRONG_TOKEN, "auth"), Msg(DEFAULT_TOKEN, "ping"),
     CallMsg(DEFAULT_TOKEN, "MoveJ", MoveArgs(Target6)),
     CallMsg(WRONG_TOKEN, "EmergencyStop", EmptyObj),
     CallMsg(DEFAULT_TOKEN, "ResetRobot", EmptyObj),
     SeqMsg(DEFAULT_TOKEN, <<Cmd("EmergencyStop", EmptyObj),
                             Cmd("MoveJ", MoveArgs(Five))>>),
     Num(7)}

\* the outcomes of the vendor API calls made while one message is handled:
\* all succeed, or the call made for command f raises.  They matter only to
\* an initialized controller.  (Every command of SeqCmds that calls the API
\* ends its sequence when the call raises, so a second failure changes
\* nothing.)
HwOutcomes(rb) ==
    IF rb.kind = "DoosanRobotController" /\ rb.initialized
    THEN {[i \in 1..MaxCmds |-> i # f] : f \in 0..MaxCmds}
    ELSE {[i \in 1..MaxCmds |-> TRUE]}

-----------------------------------------------------------------------------
(* The client: the DartLink object of dart_link.py.  link holds its two    *)
(* attributes, socket ("None" or "open") and connected, and the position   *)
(* of the one caller inside it: pc is "idle" between calls, and "create",  *)
(* "send" or "recv" while the caller is blocked in create_connection,      *)
(* sendall or the receive loop; ctx tells for whom _send_recv_internal     *)
(* runs (connect's auth exchange, _send_recv's first or second attempt)    *)
(* and cret to whom connect returns.  The other fields observe the         *)
(* invocation under way: the attributes before it, the connect calls, the  *)
(* reconnects and the writes of the request payload it made, and how       *)
(* _send_recv (inner) and the public method (api) ended; prev is the       *)
(* method called before it, and again tells that this was a disconnect     *)
(* that closed a socket.  buf is the receive loop's buffer while it holds  *)
(* no delimiter: the number of chunks in it, counted modulo 2.  overlap    *)
(* tells that create_connection returned a new socket while self.socket    *)
(* still referred to one that had not been closed.  sent counts the        *)
(* request frames sendall accepted whole, lost is what the receive loop    *)
(* met when the first attempt failed and was retried, and busy tells that  *)
(* the peer of the first attempt had not closed its end by then.  sockAuth *)
(* tells that the auth exchange on the socket the session holds returned   *)
(* status ok, and route which branch of process_message the worker took    *)
(* for the request frame written last.                                     *)

Raised(exc) == [kind |-> "raised", exc |-> exc, value |-> Null]

Returned(value) == [kind |-> "returned", exc |-> "none", value |-> value]

NoOutcome == [kind |-> "none", exc |-> "none", value |-> Null]

\* the arguments of a call that is no move
NoArgs == [len |-> 0, speed |-> 0]

\* DartLink.__init__
NewLink ==
    [socket |-> "None", connected |-> FALSE,
     pc |-> "idle", op |-> "none", ctx |-> "none", cret |-> "none", err |-> "none",
     before |-> [socket |-> "None", connected |-> FALSE],
     buf |-> 0, args |-> NoArgs, connects |-> 0, reconnects |-> 0, writes |-> 0,
     authed |-> FALSE, authRefused |-> FALSE, down |-> FALSE,
     inner |-> NoOutcome, api |-> NoOutcome, prev |-> "none", again |-> FALSE,
     overlap |-> FALSE, sent |-> 0, lost |-> "none", busy |-> FALSE,
     sockAuth |-> FALSE, route |-> "none"]

\* the public methods that go through _send_recv
Requests == {"ping", "call", "sequence"}

Moves == {"move_j", "move_l"}

\* a caller enters public method op
Enter(l, op) ==
    [l EXCEPT !.op = op, !.prev = l.op,
              !.again = (l.op = "disconnect" /\ l.before.socket = "open"),
              !.ctx = "none", !.cret = "none",
              !.err = "none", !.buf = 0,
              !.before = [socket |-> l.socket, connected |-> l.connected],
              !.args = NoArgs, !.connects = 0, !.reconnects = 0, !.writes = 0,
              !.authed = FALSE, !.authRefused = FALSE, !.down = FALSE,
              !.inner = NoOutcome, !.api = NoOutcome, !.overlap = FALSE,
              !.sent = 0, !.lost = "none", !.busy = FALSE, !.route = "none"]

\* a ping that looks at the status only
PongOkStatusOnly(resp) == resp.t = "obj" /\ Get(resp, "status") = Str("ok")

\* resp.get("status") == "ok" and resp.get("pong") is True; resp.get raises
\* for a response that is no mapping
PongOk(resp) ==
    /\ resp.t = "obj"
    /\ Get(resp, "status") = Str("ok")
    /\ Get(resp, "pong") = Bool(TRUE)

\* what the public method makes of the way _send_recv ended
ApiOutcome(op, inner) ==
    IF op # "ping" THEN inner
    ELSE IF inner.kind = "raised" THEN Returned(Bool(FALSE))
    ELSE Returned(Bool(PongOk(inner.value)))

\* _send_recv ends for its caller
SendRecvEnds(l, inner) ==
    [l EXCEPT !.pc = "idle", !.inner = inner, !.api = ApiOutcome(l.op, inner)]

\* connect returns b to whoever called it
ConnectReturns(l, b) ==
    IF l.cret = "api"
    THEN [l EXCEPT !.pc = "idle", !.authed = b, !.api = Returned(Bool(b))]
    ELSE IF b
    THEN [l EXCEPT !.pc = "send", !.authed = TRUE,
                   !.ctx = IF l.cret = "first" THEN "first" ELSE "second"]
    ELSE IF l.cret = "first"
    THEN SendRecvEnds(l, Raised("DartLinkException: cannot establish connection"))
    ELSE SendRecvEnds(l, Raised(l.err))

\* an except clause that leaves the flag as it is
ConnectFailsKeepsFlag(l) == ConnectReturns(l, FALSE)

\* connect's except clause
ConnectFails(l) == ConnectReturns([l EXCEPT !.connected = FALSE], FALSE)

\* a disconnect without finally clause
AfterCloseNoFinally(l, closeok) ==
    IF closeok
    THEN [l EXCEPT !.socket = "None", !.connected = FALSE, !.sockAuth = FALSE]
    ELSE l

\* disconnect's finally clause, whether close() returned or raised
AfterClose(l, closeok) ==
    [l EXCEPT !.socket = "None", !.connected = FALSE, !.sockAuth = FALSE]

disconnect(l, closeok) ==
    IF l.socket # "None" THEN AfterClose(l, closeok) ELSE l

\* the messages of the exceptions _send_recv reconnects for
Retryable == {"DartLinkException: connection closed",
              "DartLinkException: communication failed"}

\* _send_recv's except clause for the first attempt: disconnect, connect
Reconnect(l, exc, closeok) ==
    [disconnect(l, closeok) EXCEPT !.pc = "create", !.cret = "retry",
                                   !.err = exc, !.reconnects = @ + 1]

\* _send_recv_internal returns response r
InternalReturns(l, r) ==
    IF l.ctx = "auth"
    THEN (IF r.t = "obj" /\ Get(r, "status") = Str("ok")
          THEN ConnectReturns([l EXCEPT !.sockAuth = TRUE], TRUE)
          ELSE ConnectFails([l EXCEPT !.authRefused = TRUE]))
    ELSE SendRecvEnds(l, Returned(r))

\* a _send_recv that reconnects after every failed attempt
InternalRaisesAlways(l, exc, closeok) ==
    IF l.ctx = "auth" THEN ConnectFails(l)
    ELSE IF exc \in Retryable THEN Reconnect(l, exc, closeok)
    ELSE SendRecvEnds(l, Raised(exc))

\* _send_recv_internal raises exc
InternalRaises(l, exc, closeok) ==
    IF l.ctx = "auth" THEN ConnectFails(l)
    ELSE IF l.ctx = "first" /\ exc \in Retryable THEN Reconnect(l, exc, closeok)
    ELSE SendRecvEnds(l, Raised(exc))

\* the except clause of _send_recv_internal for socket.error and
\* json.JSONDecodeError
CommunicationFailed(l, closeok) ==
    InternalRaises([l EXCEPT !.connected = FALSE],
                   "DartLinkException: communication failed", closeok)

\* a check of the socket instead of the flag
MustConnectNoSocket(l) == l.socket = "None"

\* if not self.connected
MustConnect(l) == ~l.connected

\* _send_recv up to its first blocking call
send_recv(l) ==
    IF MustConnect(l)
    THEN [l EXCEPT !.pc = "create", !.cret = "first"]
    ELSE [l EXCEPT !.pc = "send", !.ctx = "first"]

\* an open interval
ValidSpeedOpen(speed) == MinSpeed < speed /\ speed < MaxSpeed

\* 0.01 <= speed <= 1.0
ValidSpeed(speed) == MinSpeed <= speed /\ speed <= MaxSpeed

\* the checks of move_j and move_l
ValidMove(positions, speed) ==
    PyLen(positions) = NumPositions /\ ValidSpeed(speed)

\* move_j, move_l up to the first blocking call
move(l, positions, speed) ==
    IF ValidMove(positions, speed)
    THEN send_recv(l)
    ELSE [l EXCEPT !.pc = "idle", !.api = Raised("ValueError")]

\* the responses a line read by the client can decode to
Responses ==
    {Obj([status |-> Str("ok"), pong |-> Bool(TRUE)]),
     Obj([status |-> Str("ok"), pong |-> Num(1)]),
     Obj([status |-> Str("ok"), message |-> Str("Authentication successful")]),
     Obj([status |-> Str("error"), message |-> Str("Invalid token")]),
     Obj([status |-> Str("error"), pong |-> Bool(TRUE)]),
     Obj([pong |-> Bool(TRUE)]),
     List(<<>>)}

-----------------------------------------------------------------------------
(* The logic layer (arm_logic.py).  An operation of ArmLogic calls methods *)
(* of the link; what the link's request path does with a call is an input: *)
(* it returns the decoded response or it raises.  arm holds the operation  *)
(* called last: its arguments, the calls it made to the link, how the      *)
(* wrapped function ended (inner) and how the operation itself ended       *)
(* (ret).  Speeds are in hundredths, as in the link.                       *)

MaxWaypoints == 3

\* ArmLogic.__init__
home_position == Zero6
safe_position == List(<<0, -20, 40, 0, -20, 0>>)
gripper_pin == Num(1)

\* speed=0.2, the default of the moves and of move_sequence
DefaultSpeed == 20

\* the default of result.get("message", ...): a text saying "unknown error"
UnknownError == Str("unknown error")

\* the call of a link method made for waypoint i (0 outside move_sequence)
LinkCall(method, args, i) == <<[method |-> method, args |-> args, wp |-> i]>>

\* a function that called the link (calls) and ended with outcome out
Ran(calls, out) == [calls |-> calls, out |-> out]

\* what _send_recv can do for a call: every response the link can decode,
\* or one of its exceptions
LinkOuts ==
    {Returned(r) : r \in Responses}
    \cup {Returned(Obj([status |-> Str("error")])),
          Raised("DartLinkException: connection closed"),
          Raised("DartLinkException: cannot establish connection"),
          Raised("UnicodeDecodeError")}

\* DartLink.move_j, move_l: the link's own checks, then call()
link_move(method, positions, speed, out, i) ==
    IF ValidMove(positions, speed)
    THEN Ran(LinkCall(method, MoveArgsAt(positions, speed), i), out)
    ELSE Ran(LinkCall(method, MoveArgsAt(positions, speed), i), Raised("ValueError"))

\* the function test_move_j and test_move_l wrap: the two checks raise
\* ValueError; the range checks after them only log a warning
checked_move(method, positions, speed, out, i) ==
    IF PyLen(positions) # NumPositions THEN Ran(<<>>, Raised("ValueError"))
    ELSE IF ~ValidSpeed(speed) THEN Ran(<<>>, Raised("ValueError"))
    ELSE link_move(method, positions, speed, out, i)

OkEnvelope(func_name, result) ==
    [status |-> "ok", function |-> func_name, data |-> result]

ErrorEnvelope(func_name, error) ==
    [status |-> "error", function |-> func_name, error |-> error]

\* a handler for the exceptions of the link only
CaughtLinkOnly(exc) ==
    exc \in {"DartLinkException: connection closed",
             "DartLinkException: cannot establish connection"}

\* except Exception: every exception the wrapped functions raise
Caught(exc) == TRUE

\* _execute_safely once func() has ended with outcome out
execute_safely(func_name, out) ==
    IF out.kind = "raised"
    THEN IF Caught(out.exc)
         THEN Returned(ErrorEnvelope(func_name, Str(out.exc)))
         ELSE out
    ELSE IF out.value.t = "obj"
    THEN IF Get(out.value, "status") = Str("ok")
         THEN Returned(OkEnvelope(func_name, out.value))
         ELSE Returned(ErrorEnvelope(func_name,
                                     GetD(out.value, "message", UnknownError)))
    ELSE Returned(OkEnvelope(func_name, out.value))

\* the operations wrapped by _execute_safely
ArmOps == {"home", "move_to_safe_position", "test_move_j", "test_move_l",
           "test_gripper", "emergency_stop", "reset_robot"}

NoArmArgs == [positions |-> Null, speed |-> DefaultSpeed, close |-> TRUE]

\* the arguments an operation is called with
ArmArgs(op) ==
    IF op \in {"test_move_j", "test_move_l"}
    THEN {[positions |-> p, speed |-> sp, close |-> TRUE] :
              p \in {Target6, Five, Seven}, sp \in Speeds}
    ELSE IF op = "test_gripper"
    THEN {[NoArmArgs EXCEPT !.close = b] : b \in BOOLEAN}
    ELSE {NoArmArgs}

\* the name an operation passes to _execute_safely; test_gripper appends
\* the word for "close" or "open"
FuncName(op, args) ==
    IF op # "test_gripper" THEN op
    ELSE IF args.close THEN "test_gripper_close" ELSE "test_gripper_open"

\* the function an operation wraps, run with link outcome out
WrappedFunction(op, args, out, i) ==
    CASE op = "home" -> link_move("move_j", home_position, DefaultSpeed, out, i)
      [] op = "move_to_safe_position" ->
             link_move("move_j", safe_position, DefaultSpeed, out, i)
      [] op = "test_move_j" -> checked_move("move_j", args.positions, args.speed, out, i)
      [] op = "test_move_l" -> checked_move("move_l", args.positions, args.speed, out, i)
      [] op = "test_gripper" ->
             Ran(LinkCall("set_digital_output",
                          Obj([pin |-> gripper_pin, value |-> Bool(args.close)]), i),
                 out)
      [] op = "emergency_stop" -> Ran(LinkCall("emergency_stop", EmptyObj, i), out)
      [] op = "reset_robot" -> Ran(LinkCall("reset_robot", EmptyObj, i), out)

\* a wrapped operation from its call to its end
Operation(op, args, out, i) ==
    LET ran == WrappedFunction(op, args, out, i)
    IN [calls |-> ran.calls, inner |-> ran.out,
        ret |-> execute_safely(FuncName(op, args), ran.out)]

\* the waypoints sequences are built from: a joint and a linear move, a
\* waypoint without type (joint) and without speed, one with five
\* positions, one of unknown type, and an entry that is no mapping
Waypoints ==
    {Obj([type |-> Str("joint"), positions |-> Target6, speed |-> Num(MaxSpeed)]),
     Obj([type |-> Str("linear"), positions |-> Target6, speed |-> Num(MinSpeed)]),
     Obj([positions |-> Zero6]),
     Obj([type |-> Str("joint"), positions |-> Five]),
     Obj([type |-> Str("arc"), positions |-> Target6]),
     Num(7)}

\* what the link does in a sequence: the move is done, it is refused, or
\* the connection is lost
WaypointOuts ==
    {Returned(Obj([status |-> Str("ok"), pong |-> Bool(TRUE)])),
     Returned(Obj([status |-> Str("error"), message |-> Str("Invalid token")])),
     Raised("DartLinkException: connection closed")}

\* a loop that goes on after a failed waypoint
WaypointFailedNever(result) == FALSE

\* if result.get("status") != "ok": break
WaypointFailed(result) == result.status # "ok"

\* the result of one waypoint: test_move_j, test_move_l, or the error of an
\* unknown type, for which the link is not called
WaypointResult(wp, default_speed, out, i) ==
    LET move_type == GetD(wp, "type", Str("joint"))
        args == [positions |-> GetD(wp, "positions", List(<<>>)),
                 speed |-> GetD(wp, "speed", Num(default_speed)).v,
                 close |-> TRUE]
    IN IF move_type = Str("joint") THEN Operation("test_move_j", args, out, i)
       ELSE IF move_type = Str("linear") THEN Operation("test_move_l", args, out, i)
       ELSE [calls |-> <<>>, inner |-> NoOutcome,
             ret |-> Returned([status |-> "error",
                               error |-> Str("unknown move type")])]

RECURSIVE Walk(_, _, _, _, _, _)
\* the for loop of move_sequence from waypoint i on (the i-th of the list,
\* which enumerate counts as i - 1); waypoint.get raises for a waypoint
\* that is no mapping
Walk(waypoints, default_speed, outs, i, results, calls) ==
    IF i > Len(waypoints)
    THEN [results |-> results, calls |-> calls, exc |-> "none"]
    ELSE IF waypoints[i].t # "obj"
    THEN [results |-> results, calls |-> calls, exc |-> "AttributeError"]
    ELSE LET w == WaypointResult(waypoints[i], default_speed, outs[i], i)
         IN IF w.ret.kind = "raised"
            THEN [results |-> results, calls |-> calls \o w.calls, exc |-> w.ret.exc]
            ELSE LET done == Append(results, [waypoint |-> i - 1,
                                              result |-> w.ret.value])
                 IN IF WaypointFailed(w.ret.value)
                    THEN [results |-> done, calls |-> calls \o w.calls,
                          exc |-> "none"]
                    ELSE Walk(waypoints, default_speed, outs, i + 1, done,
                              calls \o w.calls)

\* move_sequence: the loop, and the except clause around it
move_sequence(waypoints, default_speed, outs) ==
    LET w == Walk(waypoints, default_speed, outs, 1, <<>>, <<>>)
    IN [calls |-> w.calls, inner |-> NoOutcome,
        ret |-> IF w.exc # "none"
                THEN Returned([status |-> "error", error |-> Str(w.exc)])
                ELSE Returned([status |-> "ok",
                               total_waypoints |-> Len(waypoints),
                               executed_waypoints |-> Len(w.results),
                               results |-> w.results])]

\* no operation of the logic layer has been called
NoArm ==
    [pc |-> "idle", op |-> "none", args |-> NoArmArgs, waypoints |-> <<>>,
     calls |-> <<>>, inner |-> NoOutcome, ret |-> NoOutcome]

-----------------------------------------------------------------------------
(* State *)

NoResponse == [response |-> [status |-> "none"], reqid |-> 0]

NoIteration ==
    [conn |-> "none", route |-> "init", decoded |-> FALSE, message |-> Null,
     response |-> [status |-> "none"], auth_before |-> FALSE, auth_after |-> FALSE,
     authOk_before |-> FALSE, robot_unchanged |-> TRUE, calls |-> <<>>,
     erred_before |-> FALSE, embedded |-> FALSE]

\* a worker that executes no command
Idle == [route |-> "idle"]

\* the thread start_server creates for a connection: erred tells that it
\* has answered a frame with an error, closed that it has left its loop and
\* closed its socket, pending is the outcome of the command it is executing
NewWorker == [erred |-> FALSE, closed |-> FALSE, pending |-> Idle]

Init ==
    /\ robot \in {RobotSimulator, DoosanRobotController(TRUE),
                  DoosanRobotController(FALSE)}
    /\ status = [c \in Conns |-> "free"]
    /\ authenticated = [c \in Conns |-> FALSE]
    /\ c2s = [c \in Conns |-> <<>>]
    /\ s2c = [c \in Conns |-> <<>>]
    /\ waiting = [c \in Conns |-> FALSE]
    /\ nsent = [c \in Conns |-> 0]
    /\ nrecv = [c \in Conns |-> 0]
    /\ lastRead = [c \in Conns |-> NoResponse]
    /\ authOk = [c \in Conns |-> FALSE]
    /\ nreplied = [c \in Conns |-> 0]
    /\ nframes = [c \in Conns |-> 0]
    /\ last = NoIteration
    /\ link = NewLink
    /\ net = [server |-> "up", peer |-> "open", stale |-> FALSE, auth |-> FALSE]
    /\ worker = [c \in Conns |-> NewWorker]
    /\ arm = NoArm

\* one flag shared by all workers
StoreAuthenticatedShared(flags, c, value) == [d \in DOMAIN flags |-> value]

\* handle_client's flag is a local variable of the worker of connection c
StoreAuthenticated(flags, c, value) == [flags EXCEPT ![c] = value]

\* what one loop iteration on connection c leaves behind
Iteration(c, o) ==
    [conn |-> c, route |-> o.route, decoded |-> o.decoded, message |-> o.message,
     response |-> o.response, auth_before |-> authenticated[c],
     auth_after |-> o.authenticated, authOk_before |-> authOk[c],
     robot_unchanged |-> (o.robot = robot), calls |-> o.calls,
     erred_before |-> worker[c].erred, embedded |-> o.embedded]

\* the worker of connection c has sent response
Answered(w, c, response) ==
    [w EXCEPT ![c].erred = @ \/ RGet(response, "status") = "error"]

\* a server that stops when one peer closes
LeftLoopAll(st, w, c) ==
    [st |-> [d \in DOMAIN st |-> "free"],
     w |-> [d \in DOMAIN w |-> [w[d] EXCEPT !.closed = TRUE]]]

\* the worker of connection c leaves its loop (break) and closes its socket
\* (finally); the accept loop and the other workers are not touched
LeftLoop(st, w, c) ==
    [st |-> [st EXCEPT ![c] = "free"],
     w |-> [w EXCEPT ![c].closed = TRUE]]

\* a server that handles its connections in one thread
RunnableSerial(w, c) == \A d \in DOMAIN w : d # c => w[d].pending = Idle

\* each connection has a thread of its own (threading.Thread(target =
\* handle_client)), and neither the dispatcher nor the backend takes a
\* lock: the worker of connection c runs whatever the others are doing
Runnable(w, c) == TRUE

\* an auth message was answered with status=ok
AuthAnswered(o) ==
    /\ o.decoded
    /\ o.message.t = "obj"
    /\ Get(o.message, "type") = Str("auth")
    /\ RGet(o.response, "status") = "ok"

-----------------------------------------------------------------------------
(* Actions *)

\* the accept loop hands a new connection to a new worker
Accept(c) ==
    /\ status[c] = "free"
    /\ status' = [status EXCEPT ![c] = "open"]
    /\ authenticated' = StoreAuthenticated(authenticated, c, FALSE)
    /\ worker' = [worker EXCEPT ![c] = NewWorker]
    /\ UNCHANGED <<robot, c2s, s2c, waiting, nsent, nrecv, lastRead, authOk,
                   nreplied, nframes, last, link, net, arm>>

\* the peer writes one request frame and blocks for the response
PeerSend(c) ==
    \E m \in WireMsgs :
        /\ status[c] = "open"
        /\ ~waiting[c]
        /\ nsent[c] < MaxReqs
        /\ c2s' = [c2s EXCEPT ![c] = @ \o Frame(m, nsent[c] + 1)]
        /\ nsent' = [nsent EXCEPT ![c] = @ + 1]
        /\ waiting' = [waiting EXCEPT ![c] = TRUE]
        /\ UNCHANGED <<robot, status, authenticated, s2c, nrecv, lastRead, authOk,
                       nreplied, nframes, last, link, net, worker, arm>>

\* the peer's receive loop: it reads until it has a newline, returns the
\* first line and drops whatever the same reads brought after it (k frames
\* were in the reads)
PeerRecv(c) ==
    \E k \in 1..Len(s2c[c]) :
        /\ status[c] = "open"
        /\ waiting[c]
        /\ lastRead' = [lastRead EXCEPT ![c] = Head(s2c[c])]
        /\ s2c' = [s2c EXCEPT ![c] = SubSeq(@, k + 1, Len(@))]
        /\ nrecv' = [nrecv EXCEPT ![c] = @ + 1]
        /\ waiting' = [waiting EXCEPT ![c] = FALSE]
        /\ UNCHANGED <<robot, status, authenticated, c2s, nsent, authOk,
                       nreplied, nframes, last, link, net, worker, arm>>

\* a worker that sends nothing when the data does not decode
SendsUnlessUndecodable(o) ==
    IF o.decoded THEN <<[response |-> o.response, reqid |-> o.reqid]>> ELSE <<>>

\* the frames one iteration of the worker's loop sends: the response of
\* process_message, or the error response of one of the two except clauses
Sends(o) == <<[response |-> o.response, reqid |-> o.reqid]>>

\* one iteration of the worker's loop: recv returns the first n bytes the
\* stream holds, the worker decodes and processes them and sends one response
Served(c, n, o) ==
    /\ status[c] \in {"open", "peer_closed"}
    /\ last = NoIteration
    /\ c2s' = [c2s EXCEPT ![c] = SubSeq(@, n + 1, Len(@))]
    /\ robot' = o.robot
    /\ authenticated' = StoreAuthenticated(authenticated, c, o.authenticated)
    /\ authOk' = [authOk EXCEPT ![c] = @ \/ AuthAnswered(o)]
    /\ s2c' = [s2c EXCEPT ![c] = @ \o Sends(o)]
    /\ nreplied' = [nreplied EXCEPT ![c] = @ + Len(Sends(o))]
    /\ nframes' = [nframes EXCEPT ![c] = @ + NumNL(SubSeq(c2s[c], 1, n))]
    /\ last' = Iteration(c, o)
    /\ worker' = Answered(worker, c, o.response)
    /\ UNCHANGED <<status, waiting, nsent, nrecv, lastRead, link, net, arm>>

ServerRecv(c) ==
    \E n \in 1..Len(c2s[c]) : \E hw \in HwOutcomes(robot) :
        Served(c, n, HandleData(SubSeq(c2s[c], 1, n), authenticated[c], robot, hw))

\* an iteration whose send raises because the peer has closed: the send of
\* the except clause raises as well, and the worker leaves its loop through
\* the outer except clause and closes the socket
SendFailed(c, n, o) ==
    /\ status[c] = "peer_closed"
    /\ robot' = o.robot
    /\ c2s' = [c2s EXCEPT ![c] = <<>>]
    /\ status' = LeftLoop(status, worker, c).st
    /\ worker' = LeftLoop(status, worker, c).w
    /\ authenticated' = StoreAuthenticated(authenticated, c, FALSE)
    /\ s2c' = [s2c EXCEPT ![c] = <<>>]
    /\ nsent' = [nsent EXCEPT ![c] = 0]
    /\ nrecv' = [nrecv EXCEPT ![c] = 0]
    /\ lastRead' = [lastRead EXCEPT ![c] = NoResponse]
    /\ authOk' = [authOk EXCEPT ![c] = FALSE]
    /\ nreplied' = [nreplied EXCEPT ![c] = 0]
    /\ nframes' = [nframes EXCEPT ![c] = 0]
    /\ UNCHANGED <<waiting, last, link, net, arm>>

ServerSendFails(c) ==
    \E n \in 1..Len(c2s[c]) : \E hw \in HwOutcomes(robot) :
        SendFailed(c, n, HandleData(SubSeq(c2s[c], 1, n), authenticated[c], robot, hw))

\* the peer closes its socket
PeerClose(c) ==
    /\ status[c] = "open"
    /\ status' = [status EXCEPT ![c] = "peer_closed"]
    /\ waiting' = [waiting EXCEPT ![c] = FALSE]
    /\ UNCHANGED <<robot, authenticated, c2s, s2c, nsent, nrecv, lastRead, authOk,
                   nreplied, nframes, last, link, net, worker, arm>>

\* recv returns no data: the worker leaves its loop and closes the socket
ServerClose(c) ==
    /\ status[c] = "peer_closed"
    /\ c2s[c] = <<>>
    /\ status' = LeftLoop(status, worker, c).st
    /\ worker' = LeftLoop(status, worker, c).w
    /\ authenticated' = StoreAuthenticated(authenticated, c, FALSE)
    /\ s2c' = [s2c EXCEPT ![c] = <<>>]
    /\ nsent' = [nsent EXCEPT ![c] = 0]
    /\ nrecv' = [nrecv EXCEPT ![c] = 0]
    /\ lastRead' = [lastRead EXCEPT ![c] = NoResponse]
    /\ authOk' = [authOk EXCEPT ![c] = FALSE]
    /\ nreplied' = [nreplied EXCEPT ![c] = 0]
    /\ nframes' = [nframes EXCEPT ![c] = 0]
    /\ UNCHANGED <<robot, c2s, waiting, last, link, net, arm>>

\* last is an observation of the run, not program state: it is cleared
\* before the next iteration is observed
Forget ==
    /\ last # NoIteration
    /\ last' = NoIteration
    /\ UNCHANGED <<robot, status, authenticated, c2s, s2c, waiting, nsent, nrecv,
                   lastRead, authOk, nreplied, nframes, link, net, worker, arm>>

-----------------------------------------------------------------------------
(* The server with its concurrent connection workers.  What a worker's     *)
(* recv returns is whatever the peer's writes and the stream make of them: *)
(* a whole frame, a piece of one, or more than one.  The workers share     *)
(* only the backend; an iteration of one worker's loop is one step.        *)

\* the data one recv can return when the peer sends messages of M: a whole
\* frame, or what the stream makes of the frames of WireMsgs (a piece of a
\* frame, a bare delimiter, two frames at once)
Chunks(M) ==
    {Frame(m, 1) : m \in M}
    \cup {<<Half(m, 1, 1)>> : m \in WireMsgs}
    \cup {<<Half(m, 1, 2), NL>> : m \in WireMsgs}
    \cup {<<Half(m, 1, 1), Half(m, 1, 2)>> : m \in WireMsgs}
    \cup {<<NL>>}
    \cup {Frame(m, 1) \o Frame(m, 2) : m \in WireMsgs}
    \cup {<<Half(m, 1, 1), NL, Half(m, 1, 2), NL>> : m \in WireMsgs}
    \cup {<<Half(m, 1, 3), NL, Half(m, 1, 4), NL>> : m \in WireMsgs}

WireChunks == Chunks(WireMsgs)
ConnChunks == Chunks(ConnMsgs)

Exchanged(c, o) ==
    /\ status[c] = "open"
    /\ worker[c].pending = Idle
    /\ Runnable(worker, c)
    /\ last = NoIteration
    /\ robot' = o.robot
    /\ authenticated' = StoreAuthenticated(authenticated, c, o.authenticated)
    /\ authOk' = [authOk EXCEPT ![c] = @ \/ AuthAnswered(o)]
    /\ last' = Iteration(c, o)
    /\ worker' = Answered(worker, c, o.response)
    /\ UNCHANGED <<status, c2s, s2c, waiting, nsent, nrecv, lastRead,
                   nreplied, nframes, link, net, arm>>

Exchange(c) ==
    \E data \in WireChunks : \E hw \in HwOutcomes(robot) :
        Exchanged(c, HandleData(data, authenticated[c], robot, hw))

\* the peer closes the connection and the worker, reading no data, ends
Hangup(c) ==
    /\ status[c] = "open"
    /\ worker[c].pending = Idle
    /\ status' = LeftLoop(status, worker, c).st
    /\ worker' = LeftLoop(status, worker, c).w
    /\ authenticated' = StoreAuthenticated(authenticated, c, FALSE)
    /\ authOk' = [authOk EXCEPT ![c] = FALSE]
    /\ UNCHANGED <<robot, c2s, s2c, waiting, nsent, nrecv, lastRead,
                   nreplied, nframes, last, link, net, arm>>

Next ==
    \/ Forget
    \/ \E c \in Conns :
        \/ Accept(c)
        \/ Exchange(c)
        \/ Hangup(c)

Spec == Init /\ [][Next]_vars

-----------------------------------------------------------------------------
(* One connection that receives every message shape of ConnMsgs *)

ExchangeAny(c) ==
    \E data \in ConnChunks : \E hw \in HwOutcomes(robot) :
        Exchanged(c, HandleData(data, authenticated[c], robot, hw))

OneNext ==
    \/ Forget
    \/ Accept("c1")
    \/ ExchangeAny("c1")
    \/ Hangup("c1")

SpecOne == Init /\ [][OneNext]_vars

-----------------------------------------------------------------------------
(* One connection with its byte streams: the peer sends a request frame    *)
(* and blocks for one response line, as dart_link.py does.                 *)

StreamNext ==
    \/ Forget
    \/ Accept("c1")
    \/ PeerSend("c1")
    \/ PeerRecv("c1")
    \/ ServerRecv("c1")
    \/ ServerSendFails("c1")
    \/ PeerClose("c1")
    \/ ServerClose("c1")

SpecStream == Init /\ [][StreamNext]_vars

-----------------------------------------------------------------------------
(* Two connections whose workers block inside the backend.  The simulator's *)
(* movej and movel store the target and then sleep for a second, and       *)
(* execute_wait_ms sleeps for the time asked: the worker's thread is       *)
(* suspended in time.sleep with its answer still to be sent, and the       *)
(* threads of the other connections run.  Begin is a worker's iteration up *)
(* to that sleep, Finish the rest of it.                                   *)

\* the commands sent while a backend operation is in progress
BusyMsgs ==
    {Msg(DEFAULT_TOKEN, "auth"), Msg(DEFAULT_TOKEN, "ping"),
     CallMsg(DEFAULT_TOKEN, "MoveJ", MoveArgs(Target6)),
     CallMsg(DEFAULT_TOKEN, "MoveL", MoveArgs(Target6)),
     CallMsg(DEFAULT_TOKEN, "WaitMs", Obj([ms |-> Num(5)])),
     CallMsg(DEFAULT_TOKEN, "EmergencyStop", EmptyObj),
     CallMsg(DEFAULT_TOKEN, "ResetRobot", EmptyObj)}

AllOk == [i \in 1..MaxCmds |-> TRUE]

\* the worker's iteration on a frame that carries m
Handled(c, m) == HandleData(Frame(m, 1), authenticated[c], robot, AllOk)

IsSleep(e) == e.op \in {"move_joint", "move_linear", "sleep"}

\* the iteration blocks in time.sleep
Sleeps(o) == SelectSeq(o.calls, IsSleep) # <<>>

\* the worker of c has stored the target and sleeps
Begun(c, o) ==
    /\ status[c] = "open"
    /\ worker[c].pending = Idle
    /\ Runnable(worker, c)
    /\ Sleeps(o)
    /\ robot' = o.robot
    /\ worker' = [worker EXCEPT ![c].pending = o]
    /\ UNCHANGED <<status, authenticated, c2s, s2c, waiting, nsent, nrecv,
                   lastRead, authOk, nreplied, nframes, last, link, net, arm>>

Begin(c) == \E m \in BusyMsgs : Begun(c, Handled(c, m))

\* the sleep is over: the worker sends the answer of the command
Finish(c) ==
    /\ status[c] = "open"
    /\ worker[c].pending # Idle
    /\ Runnable(worker, c)
    /\ last = NoIteration
    /\ last' = Iteration(c, worker[c].pending)
    /\ worker' = [Answered(worker, c, worker[c].pending.response)
                      EXCEPT ![c].pending = Idle]
    /\ UNCHANGED <<robot, status, authenticated, c2s, s2c, waiting, nsent, nrecv,
                   lastRead, authOk, nreplied, nframes, link, net, arm>>

\* an iteration that does not sleep
Quick(c) ==
    \E m \in BusyMsgs : ~Sleeps(Handled(c, m)) /\ Exchanged(c, Handled(c, m))

BusyNext ==
    \/ Forget
    \/ \E c \in Conns :
        \/ Accept(c)
        \/ Quick(c)
        \/ Begin(c)
        \/ Finish(c)
        \/ Hangup(c)

BusyInit == Init /\ robot = RobotSimulator

SpecBusy == BusyInit /\ [][BusyNext]_vars

-----------------------------------------------------------------------------
(* The client's calls and the steps in which they block.  net is what the  *)
(* DartLink object meets: whether the server can be reached, whether the   *)
(* peer of the socket the object holds has closed it, and whether the      *)
(* socket holds a response line nobody has read (stale): the worker        *)
(* answers every read, so a request it read in two pieces leaves a second  *)
(* answer behind.                                                          *)

serverVars == <<robot, status, authenticated, c2s, s2c, waiting, nsent, nrecv,
                lastRead, authOk, nreplied, nframes, last, worker, arm>>

\* the server closed the session's socket and cannot be reached
ServerGone(l, n) == n.server = "down" /\ n.peer = "closed" /\ l.connected

LinkConnect ==
    /\ link.pc = "idle"
    /\ link' = [Enter(link, "connect") EXCEPT !.pc = "create", !.cret = "api"]
    /\ UNCHANGED <<serverVars, net>>

LinkDisconnect ==
    /\ link.pc = "idle"
    /\ \E closeok \in BOOLEAN :
           link' = [disconnect(Enter(link, "disconnect"), closeok)
                        EXCEPT !.api = Returned(Null)]
    /\ UNCHANGED <<serverVars, net>>

\* ping, call or sequence is called
LinkRequest ==
    /\ link.pc = "idle"
    /\ \E op \in Requests :
           link' = [send_recv(Enter(link, op)) EXCEPT !.down = ServerGone(link, net)]
    /\ UNCHANGED <<serverVars, net>>

\* move_j or move_l is called
LinkMove ==
    /\ link.pc = "idle"
    /\ \E op \in Moves : \E positions \in {Five, Target6, Seven} : \E speed \in Speeds :
           link' = [move(Enter(link, op), positions, speed)
                        EXCEPT !.down = ServerGone(link, net),
                               !.args = [len |-> PyLen(positions), speed |-> speed]]
    /\ UNCHANGED <<serverVars, net>>

\* socket.create_connection returned a socket (ok) or raised
Created(l, ok) ==
    IF ok
    THEN [l EXCEPT !.socket = "open", !.connected = TRUE, !.connects = @ + 1,
                   !.pc = "send", !.ctx = "auth",
                   !.overlap = (l.socket = "open"), !.sockAuth = FALSE]
    ELSE ConnectFails([l EXCEPT !.connects = @ + 1])

LinkCreate ==
    /\ link.pc = "create"
    /\ \E ok \in (IF net.server = "up" THEN BOOLEAN ELSE {FALSE}) :
           /\ link' = Created(link, ok)
           /\ net' = IF ok
                     THEN [net EXCEPT !.peer = "open", !.stale = FALSE, !.auth = FALSE]
                     ELSE net
    /\ UNCHANGED serverVars

\* a write of the request payload (the auth payload is not counted)
Wrote(l) == IF l.ctx = "auth" THEN l ELSE [l EXCEPT !.writes = @ + 1]

\* sendall returned: the whole request frame is on its way to the worker
Delivered(l) == IF l.ctx = "auth" THEN l ELSE [l EXCEPT !.sent = @ + 1]

\* _send_recv_internal up to the receive loop: sendall returned (ok) or raised
Sent(l, ok, closeok) ==
    IF l.socket = "None"
    THEN InternalRaises(l, "DartLinkException: not connected", closeok)
    ELSE IF ok
    THEN [Delivered(Wrote(l)) EXCEPT !.pc = "recv", !.buf = 0]
    ELSE CommunicationFailed(Wrote(l), closeok)

\* the payload _send_recv_internal is called with
Payload(l) ==
    IF l.ctx = "auth" THEN auth_payload(DEFAULT_TOKEN)
    ELSE IF l.op = "ping" THEN ping_payload(DEFAULT_TOKEN)
    ELSE IF l.op = "sequence"
    THEN sequence_payload(DEFAULT_TOKEN, <<Cmd("GetCurrentPose", EmptyObj)>>)
    ELSE IF l.op = "move_j"
    THEN call_payload(DEFAULT_TOKEN, "MoveJ", MoveArgsAt(Target6, l.args.speed))
    ELSE IF l.op = "move_l"
    THEN call_payload(DEFAULT_TOKEN, "MoveL", MoveArgsAt(Target6, l.args.speed))
    ELSE call_payload(DEFAULT_TOKEN, "GetCurrentPose", Null)

\* the frame reaches a worker: the socket is open at both ends
Reaches(l, n, ok) == ok /\ l.socket = "open" /\ n.peer = "open"

\* the worker of the session's connection handles the frame, read whole
WorkerHandles(l, n, hw) == HandleData(Frame(Payload(l), 1), n.auth, robot, hw)

LinkSend ==
    /\ link.pc = "send"
    /\ \E ok \in BOOLEAN : \E closeok \in BOOLEAN : \E hw \in HwOutcomes(robot) :
           /\ link' = [Sent(link, ok, closeok) EXCEPT
                          !.route = IF Reaches(link, net, ok) /\ link.ctx # "auth"
                                    THEN WorkerHandles(link, net, hw).route
                                    ELSE @]
           /\ net' = IF Reaches(link, net, ok)
                     THEN [net EXCEPT !.auth = WorkerHandles(link, net, hw).authenticated]
                     ELSE net
    /\ UNCHANGED serverVars

\* what one recv of the receive loop can bring: a chunk that completes a
\* line (decoding to r; stale tells whether a further line stays behind in
\* the socket), a line that is no JSON or no UTF-8, a chunk without
\* delimiter, no data (the peer closed), or a socket error or timeout
RecvOutcomes(n) ==
    IF n.stale
    THEN {[k |-> "line", r |-> r, stale |-> st] :
              r \in Responses,
              st \in (IF n.peer = "open" THEN BOOLEAN ELSE {FALSE})}
    ELSE IF n.peer = "closed"
    THEN {[k |-> "eof"], [k |-> "error"]}
    ELSE {[k |-> "line", r |-> r, stale |-> st] : r \in Responses, st \in BOOLEAN}
         \cup {[k |-> "garbled"], [k |-> "not_utf8"], [k |-> "partial"],
               [k |-> "error"]}

\* one iteration of the receive loop
Received(l, out, closeok) ==
    IF out.k = "line" THEN InternalReturns(l, out.r)
    ELSE IF out.k = "partial" THEN [l EXCEPT !.buf = (@ + 1) % 2]
    ELSE IF out.k = "eof"
    THEN InternalRaises(l, "DartLinkException: connection closed", closeok)
    ELSE IF out.k = "not_utf8"
    THEN InternalRaises(l, "UnicodeDecodeError", closeok)
    ELSE CommunicationFailed(l, closeok)

\* the receive loop of the first attempt ended in a failure that is retried
Lost(after, l, out, n) ==
    IF after.reconnects > l.reconnects
    THEN [after EXCEPT !.lost = out.k, !.busy = (n.peer = "open")]
    ELSE after

LinkRecv ==
    /\ link.pc = "recv"
    /\ \E out \in RecvOutcomes(net) : \E closeok \in BOOLEAN :
           /\ link' = Lost(Received(link, out, closeok), link, out, net)
           /\ net' = [net EXCEPT !.stale = (out.k = "line" /\ out.stale)]
    /\ UNCHANGED serverVars

\* the server stops: it closes its sockets and accepts no connection
ServerDown ==
    /\ net.server = "up"
    /\ net' = [net EXCEPT !.server = "down", !.peer = "closed"]
    /\ UNCHANGED <<serverVars, link>>

ServerUp ==
    /\ net.server = "down"
    /\ net' = [net EXCEPT !.server = "up"]
    /\ link' = [link EXCEPT !.down = FALSE]
    /\ UNCHANGED serverVars

\* the worker of the session's connection ends and closes its socket
PeerShutdown ==
    /\ link.socket = "open"
    /\ net.peer = "open"
    /\ net' = [net EXCEPT !.peer = "closed"]
    /\ UNCHANGED <<serverVars, link>>

\* the caller's thread runs on whenever its blocking call can return
LinkStep == LinkCreate \/ LinkSend \/ LinkRecv

LinkNext ==
    \/ LinkConnect
    \/ LinkDisconnect
    \/ LinkRequest
    \/ LinkMove
    \/ LinkCreate
    \/ LinkSend
    \/ LinkRecv
    \/ ServerDown
    \/ ServerUp
    \/ PeerShutdown

\* the client never touches the backend: one backend is enough
LinkInit == Init /\ robot = RobotSimulator

SpecLink == LinkInit /\ [][LinkNext]_vars /\ WF_vars(LinkStep)

-----------------------------------------------------------------------------
(* The logic layer alone: an operation is called, runs to its end on       *)
(* whatever the link does, and its caller takes the result.                *)

linkVars == <<robot, status, authenticated, c2s, s2c, waiting, nsent, nrecv,
              lastRead, authOk, nreplied, nframes, last, worker, link, net>>

\* the operation has ended with o
ArmEnded(op, args, waypoints, o) ==
    /\ arm.pc = "idle"
    /\ arm' = [pc |-> "done", op |-> op, args |-> args, waypoints |-> waypoints,
               calls |-> o.calls, inner |-> o.inner, ret |-> o.ret]
    /\ UNCHANGED linkVars

\* one of the wrapped operations is called and ends
ArmCall ==
    \E op \in ArmOps : \E args \in ArmArgs(op) : \E out \in LinkOuts :
        ArmEnded(op, args, <<>>, Operation(op, args, out, 0))

\* move_sequence is called and ends
ArmSequence ==
    \E waypoints \in SeqsUpTo(Waypoints, MaxWaypoints) :
        \E outs \in [1..MaxWaypoints -> WaypointOuts] :
            ArmEnded("move_sequence", NoArmArgs, waypoints,
                     move_sequence(waypoints, DefaultSpeed, outs))

\* the caller has taken the result
ArmReturn ==
    /\ arm.pc = "done"
    /\ arm' = NoArm
    /\ UNCHANGED linkVars

ArmNext ==
    \/ ArmCall
    \/ ArmSequence
    \/ ArmReturn

ArmInit == Init /\ robot = RobotSimulator

SpecArm == ArmInit /\ [][ArmNext]_vars

-----------------------------------------------------------------------------
(* Properties.  They are stated on last, the observation of the iteration  *)
(* of a worker's loop that was taken last: the message it decoded, the     *)
(* response it sent, the worker's flag before and after, and the trace of  *)
(* commands dispatched and backend operations invoked.                     *)

IsMapping(m) == m.t = "obj"

\* the iteration decoded a mapping: the message process_message inspects
Processed == last.decoded /\ IsMapping(last.message)

RightToken(m) == Get(m, "token") = Str(DEFAULT_TOKEN)

IsBackendCall(e) == e.op # "dispatch"

BackendCalls(calls) == SelectSeq(calls, IsBackendCall)

IsDispatch(e) == e.op = "dispatch"

\* the positions of the commands handed to handle_function_call, in order
DispatchedCmds(calls) ==
    [j \in 1..Len(SelectSeq(calls, IsDispatch)) |-> SelectSeq(calls, IsDispatch)[j].cmd]

\* C1: whatever its type and whatever the connection's authentication
\* state, a message whose token is not the server's token (missing tokens
\* included) is answered status=error "Invalid token", and the worker's
\* authenticated flag is after the message what it was before.
C1_InvalidToken ==
    (Processed /\ ~RightToken(last.message)) =>
        /\ last.response = [status |-> "error", message |-> "Invalid token"]
        /\ last.auth_after = last.auth_before

\* a wrong-token sequence on an authenticated connection was refused
C1_Witness ==
    /\ Processed
    /\ Get(last.message, "token") = Str(WRONG_TOKEN)
    /\ Get(last.message, "type") = Str("sequence")
    /\ last.auth_before
    /\ last.auth_after
    /\ last.response = [status |-> "error", message |-> "Invalid token"]

\* C2: a backend operation is invoked only for a message that carries the
\* right token and was received on a connection on which an earlier auth
\* message had been answered status=ok.
C2_BackendNeedsAuth ==
    (BackendCalls(last.calls) # <<>>) =>
        /\ Processed
        /\ RightToken(last.message)
        /\ last.authOk_before

\* a backend operation ran for connection c2 while c1 was open and had
\* not authenticated
C2_Witness ==
    /\ BackendCalls(last.calls) # <<>>
    /\ last.conn = "c2"
    /\ last.authOk_before
    /\ status["c1"] = "open"
    /\ ~authOk["c1"]

\* C3: on a connection whose flag is false, a right-token message whose
\* type is neither auth nor ping (call, sequence, no type, an unknown type)
\* is answered status=error "Authentication required".
C3_AuthenticationRequired ==
    (/\ Processed
     /\ RightToken(last.message)
     /\ ~last.auth_before
     /\ Get(last.message, "type") \notin {Str("auth"), Str("ping")}) =>
        last.response = [status |-> "error", message |-> "Authentication required"]

\* an unknown type was answered "Authentication required" before auth
C3_Witness ==
    /\ Processed
    /\ RightToken(last.message)
    /\ ~last.auth_before
    /\ Get(last.message, "type") = Str("status")
    /\ last.response = [status |-> "error", message |-> "Authentication required"]

\* C4: a right-token ping is answered {status=ok, pong=true} whether the
\* connection is authenticated or not, and it changes neither the worker's
\* flag nor the backend, on which it invokes nothing.
C4_Ping ==
    (/\ Processed
     /\ RightToken(last.message)
     /\ Get(last.message, "type") = Str("ping")) =>
        /\ last.response = [status |-> "ok", pong |-> TRUE]
        /\ last.auth_after = last.auth_before
        /\ last.robot_unchanged
        /\ last.calls = <<>>

\* a ping was answered on a connection that had not authenticated
C4_Witness ==
    /\ Processed
    /\ Get(last.message, "type") = Str("ping")
    /\ ~last.auth_before
    /\ ~last.auth_after
    /\ last.response = [status |-> "ok", pong |-> TRUE]

\* C5: once an auth message was answered status=ok on a connection, every
\* right-token call or sequence the connection receives afterwards is
\* handed to function dispatch and is not answered "Authentication
\* required", whatever was received in between.
C5_StaysAuthenticated ==
    (/\ Processed
     /\ RightToken(last.message)
     /\ last.authOk_before
     /\ Get(last.message, "type") \in {Str("call"), Str("sequence")}) =>
        /\ last.route \in {"call", "sequence"}
        /\ last.response # [status |-> "error", message |-> "Authentication required"]

\* a sequence received after the auth was dispatched to the backend
C5_Witness ==
    /\ Processed
    /\ last.authOk_before
    /\ last.route = "sequence"
    /\ Len(DispatchedCmds(last.calls)) = 2

\* C6: a worker's flag is true only if an auth message was answered
\* status=ok on its own connection, and a call or sequence is dispatched
\* only on such a connection, whatever the other connections did.
C6_PerConnection ==
    /\ \A c \in Conns : authenticated[c] => authOk[c]
    /\ last.route \in {"call", "sequence"} => last.authOk_before

\* c1 authenticated, and a command on c2 was still refused
C6_Witness ==
    /\ status["c1"] = "open"
    /\ authenticated["c1"]
    /\ status["c2"] = "open"
    /\ ~authenticated["c2"]
    /\ last.conn = "c2"
    /\ last.route = "auth_required"
    /\ Get(last.message, "type") = Str("call")

\* the commands of a sequence message: message.get('commands', [])
CommandsOf(m) == GetD(m, "commands", List(<<>>))

\* a sequence message as the protocol's data model has it: commands is
\* absent or a list, and every command is a mapping
WellFormedSequence(m) ==
    /\ CommandsOf(m).t = "list"
    /\ \A j \in 1..Len(CommandsOf(m).v) : IsMapping(CommandsOf(m).v[j])

\* the texts with which a command for function f can be answered
AnswersTo(f) ==
    IF f = Str("MoveJ")
    THEN {"MoveJ completed", "MoveJ failed", "MoveJ error",
          "MoveJ requires 6 joint positions"}
    ELSE IF f = Str("EmergencyStop")
    THEN {"Emergency stop executed", "Emergency stop failed", "Emergency stop error"}
    ELSE {}

C8_InOrder ==
    (Processed /\ last.route = "sequence") =>
        /\ \A j \in 1..Len(DispatchedCmds(last.calls)) :
               DispatchedCmds(last.calls)[j] = j
        /\ \A j \in 1..Len(last.calls) :
               /\ (j > 1) => last.calls[j - 1].cmd <= last.calls[j].cmd
               /\ \E d \in 1..j : /\ IsDispatch(last.calls[d])
                                  /\ last.calls[d].cmd = last.calls[j].cmd
        /\ ("results" \in DOMAIN last.response) =>
               /\ Len(DispatchedCmds(last.calls)) = Len(last.response.results)
               /\ \A j \in 1..Len(last.response.results) :
                      (RGet(last.response.results[j], "status") # "ok") =>
                          j = Len(DispatchedCmds(last.calls))

\* the backend failed the second of three commands: the third was never
\* dispatched
C8_Witness ==
    /\ Processed
    /\ last.route = "sequence"
    /\ WellFormedSequence(last.message)
    /\ Len(CommandsOf(last.message).v) = 3
    /\ DispatchedCmds(last.calls) = <<1, 2>>
    /\ Len(BackendCalls(last.calls)) = 2
    /\ "results" \in DOMAIN last.response
    /\ Len(last.response.results) = 2
    /\ RGet(last.response.results[2], "status") = "error"

\* C9: for every n, the n-th response the client reads on a connection is
\* the server's answer to the n-th request the client sent on it, however
\* the stream splits the bytes into reads.  (The worker answers each read,
\* so a request that arrives in two reads is answered twice.)
C9_ResponseOrder ==
    \A c \in Conns : (nrecv[c] > 0) => lastRead[c].reqid = nrecv[c]

\* C10: the server answers once for each request frame: the responses a
\* worker has sent are as many as the frame delimiters it has consumed,
\* whether a frame came in several reads or several frames in one.
C10_OneResponsePerFrame ==
    \A c \in Conns : nreplied[c] = nframes[c]

\* C11: on the client no received byte is dropped: the bytes a read brings
\* after the first delimiter stay buffered for the next receive, so every
\* response frame the worker sent has either been returned to the caller
\* or is still waiting to be returned.
C11_NoByteDropped ==
    \A c \in Conns : nrecv[c] + Len(s2c[c]) = nreplied[c]

\* the speed a move call carries lies outside the client's interval
SpeedOutOfRange(m) ==
    /\ Get(m, "function") \in {Str("MoveJ"), Str("MoveL")}
    /\ Get(m, "args").t = "obj"
    /\ Get(Get(m, "args"), "speed").t = "num"
    /\ \/ Get(Get(m, "args"), "speed").v < MinSpeed
       \/ Get(Get(m, "args"), "speed").v > MaxSpeed

\* C20: the server checks the speed itself: a MoveJ or MoveL call that
\* reaches dispatch with a speed outside [0.01, 1.0] is answered
\* status=error and no backend operation is invoked for it.
C20_ServerChecksSpeed ==
    (Processed /\ last.route = "call" /\ SpeedOutOfRange(last.message)) =>
        /\ RGet(last.response, "status") = "error"
        /\ BackendCalls(last.calls) = <<>>

\* the positions a move call carries: args.get('positions', [])
PositionsOf(m) ==
    IF GetD(m, "args", EmptyObj).t = "obj"
    THEN GetD(GetD(m, "args", EmptyObj), "positions", List(<<>>))
    ELSE Null

IsMove(m) == Get(m, "function") \in {Str("MoveJ"), Str("MoveL")}

\* C21: a MoveJ or MoveL call whose positions vector has a length other
\* than 6 (5, 7, empty, or no positions at all) is answered status=error;
\* no backend operation is invoked for it and the backend is as before.
C21_SixPositions ==
    (/\ Processed
     /\ last.route = "call"
     /\ IsMove(last.message)
     /\ PositionsOf(last.message).t = "list"
     /\ Len(PositionsOf(last.message).v) # 6) =>
        /\ RGet(last.response, "status") = "error"
        /\ RGet(last.response, "message") \in
               {"MoveJ requires 6 joint positions", "MoveL requires 6 pose values"}
        /\ BackendCalls(last.calls) = <<>>
        /\ last.robot_unchanged

\* a MoveL with 7 pose values was refused
C21_Witness ==
    /\ Processed
    /\ last.route = "call"
    /\ Get(last.message, "function") = Str("MoveL")
    /\ PositionsOf(last.message) = Seven
    /\ last.response = [status |-> "error", message |-> "MoveL requires 6 pose values"]
    /\ last.calls = Call("dispatch", 1)

\* the ten names of the registry
Registered ==
    {Str("MoveJ"), Str("MoveL"), Str("SetDO"), Str("GetDI"), Str("WaitMs"),
     Str("GetCurrentPose"), Str("GetJointAngles"), Str("EmergencyStop"),
     Str("ResetRobot"), Str("GetRobotState")}

MessageTypes == {Str("auth"), Str("ping"), Str("call"), Str("sequence")}

\* C22: on an authenticated connection (the message carrying the server's
\* token), a call whose function is not one of the ten registered names
\* (no function at all included) is answered status=error "Unknown
\* function: <function>" and no backend operation is invoked; a message
\* whose type is none of auth, ping, call, sequence is answered
\* status=error "Unknown message type: <type>".
C22_Unknown ==
    (Processed /\ RightToken(last.message) /\ last.auth_before) =>
        /\ (/\ Get(last.message, "type") = Str("call")
            /\ Get(last.message, "function") \notin Registered) =>
               /\ last.response =
                      Error("Unknown function: " \o Repr(Get(last.message, "function")))
               /\ BackendCalls(last.calls) = <<>>
               /\ last.robot_unchanged
        /\ (Get(last.message, "type") \notin MessageTypes) =>
               /\ last.response =
                      Error("Unknown message type: " \o Repr(Get(last.message, "type")))
               /\ last.calls = <<>>
               /\ last.robot_unchanged

\* a call of a function that is not registered was refused by name
C22_Witness ==
    /\ Processed
    /\ last.auth_before
    /\ Get(last.message, "function") = Str("Fly")
    /\ last.response = [status |-> "error", message |-> "Unknown function: Fly"]

\* C23: function dispatch is total: whatever the function name and the
\* args of a call, and whatever the entries of a sequence's commands list
\* (entries that are no mappings included), every command handed to
\* dispatch comes back with a result of status ok or error, and no
\* exception leaves dispatch: the connection handler never has to answer
\* "Processing error" for a call or for a sequence over a list.
C23_DispatchTotal ==
    (/\ Processed
     /\ last.route \in {"call", "sequence"}
     /\ (last.route = "sequence") => CommandsOf(last.message).t = "list") =>
        /\ RGet(last.response, "message") # "Processing error"
        /\ (last.route = "call") =>
               RGet(last.response, "status") \in {"ok", "error"}
        /\ (last.route = "sequence") =>
               /\ "results" \in DOMAIN last.response
               /\ Len(last.response.results) = Len(DispatchedCmds(last.calls))
               /\ \A j \in 1..Len(last.response.results) :
                      RGet(last.response.results[j], "status") \in {"ok", "error"}

\* the backend is a controller whose initialize_robot failed
NotInitialized(rb) == rb.kind = "DoosanRobotController" /\ ~rb.initialized

\* C24: a failure of the execution backend is surfaced as status=error,
\* and status=ok is returned only when the backend operation succeeded: a
\* call of a registered function that operates the robot, made while the
\* robot is not initialized, is answered status=error.
C24_BackendFailureIsError ==
    (/\ Processed
     /\ last.route = "call"
     /\ Get(last.message, "function") \in Registered \ {Str("WaitMs")}
     /\ BackendCalls(last.calls) # <<>>
     /\ NotInitialized(robot)) =>
        RGet(last.response, "status") = "error"

\* the iteration of a worker's loop that this step takes answers an error
AnswersError(c) ==
    /\ last = NoIteration
    /\ last'.conn = c
    /\ RGet(last'.response, "status") = "error"

\* C25: an error answer (undecodable frame, invalid token, unknown type,
\* unknown function, failed backend call, processing exception) neither
\* closes the connection nor changes the worker's authenticated flag, and
\* the requests that follow it on the connection are processed as on any
\* other: a right-token ping is answered pong, and on an authenticated
\* connection a right-token call or sequence is dispatched.
C25_ErrorKeepsConnection ==
    /\ [][\A c \in Conns :
              AnswersError(c) =>
                  /\ status[c] = "open"
                  /\ status'[c] = "open"
                  /\ authenticated'[c] = authenticated[c]
                  /\ last'.auth_after = last'.auth_before]_vars
    /\ [](/\ Processed
          /\ last.erred_before
          /\ RightToken(last.message)
          => /\ (Get(last.message, "type") = Str("ping")) =>
                    last.response = [status |-> "ok", pong |-> TRUE]
             /\ (/\ last.auth_before
                 /\ Get(last.message, "type") \in {Str("call"), Str("sequence")}) =>
                    last.route \in {"call", "sequence"})

\* after an error answer on an authenticated connection, a move was
\* dispatched to the backend and answered ok
C25_Witness ==
    /\ Processed
    /\ last.erred_before
    /\ last.auth_before
    /\ last.route = "call"
    /\ Get(last.message, "function") = Str("MoveJ")
    /\ RGet(last.response, "status") = "ok"
    /\ BackendCalls(last.calls) # <<>>

\* the worker of connection d takes a call of safety function f, invokes
\* backend operation op for it and answers status=ok
Stops(d, f, op) ==
    /\ Exchanged(d, Handled(d, CallMsg(DEFAULT_TOKEN, f, EmptyObj)))
    /\ last'.route = "call"
    /\ BackendCalls(last'.calls) = Call(op, 1)
    /\ RGet(last'.response, "status") = "ok"

\* C26: while a MoveJ, MoveL or WaitMs issued on one connection is still
\* executing, an EmergencyStop or a ResetRobot that arrives on another,
\* authenticated connection can be dispatched to the backend and answered
\* at once: nothing makes the second worker wait for the first.
C26_StopNotSerialized ==
    \A c \in Conns : \A d \in Conns \ {c} :
        (/\ worker[c].pending # Idle
         /\ status[d] = "open"
         /\ authenticated[d]
         /\ worker[d].pending = Idle
         /\ last = NoIteration) =>
            /\ ENABLED Stops(d, "EmergencyStop", "emergency_stop")
            /\ ENABLED Stops(d, "ResetRobot", "reset_robot")

\* the emergency stop of c2 was answered while the move of c1 was still
\* executing
C26_Witness ==
    /\ worker["c1"].pending # Idle
    /\ Get(worker["c1"].pending.message, "function") = Str("MoveJ")
    /\ last.conn = "c2"
    /\ last.route = "call"
    /\ Get(last.message, "function") = Str("EmergencyStop")
    /\ last.response = [status |-> "ok", message |-> "Emergency stop executed"]
    /\ robot.robot_state = "EMERGENCY_STOPPED"

\* the server runs without a real robot: with the simulator, or with a
\* controller that found no robot API ("running in simulation mode")
WithoutRobot(rb) == rb.kind = "RobotSimulator" \/ NotInitialized(rb)

\* C27: with the server's token, auth followed by a call of MoveJ with
\* positions [0,0,0,0,0,0] and speed 0.2 is answered status=ok with a
\* message that names MoveJ and with the positions and the speed echoed,
\* on a server that runs without a real robot.
C27_MoveJScenario ==
    (/\ Processed
     /\ last.authOk_before
     /\ last.message = CallMsg(DEFAULT_TOKEN, "MoveJ", MoveArgs(Zero6))
     /\ WithoutRobot(robot)) =>
        last.response = [status |-> "ok", message |-> "MoveJ completed",
                         positions |-> Zero6, speed |-> Num(20)]

\* this step ends the connection c
Closes(c) == status[c] = "open" /\ status'[c] = "free"

\* C28: when the peer closes a connection its worker leaves the loop,
\* closes its socket and ends; the other connections stay as they are,
\* their workers and their authenticated flags untouched, and the accept
\* loop goes on taking connections.
C28_CloseEndsOneWorker ==
    /\ [][\A c \in Conns :
              Closes(c) =>
                  /\ worker'[c].closed
                  /\ ~authenticated'[c]
                  /\ \A d \in Conns \ {c} :
                         /\ status'[d] = status[d]
                         /\ authenticated'[d] = authenticated[d]
                         /\ worker'[d] = worker[d]]_vars
    /\ [](\A c \in Conns :
              /\ worker[c].closed => status[c] = "free"
              /\ (status[c] = "free") => ENABLED Accept(c))

\* the worker of c1 has ended while c2 is open and authenticated
C28_Witness ==
    /\ worker["c1"].closed
    /\ status["c1"] = "free"
    /\ status["c2"] = "open"
    /\ authenticated["c2"]

\* C29: the client session owns at most one open stream at a time:
\* whenever it opens a new one, over any sequence of connect, disconnect,
\* ping, call and sequence, it has closed every stream it opened before.
C29_OneStream == ~link.overlap

\* C30: the encoder's output for a message holds exactly one newline, its
\* last byte, and such a frame is decoded as exactly that message; data in
\* which a delimiter is left inside the text (a stray newline in the
\* encoding, a second frame) is rejected by the worker as malformed.
C30_Framing ==
    /\ \A m \in WireMsgs :
           /\ Frame(m, 1)[Len(Frame(m, 1))] = NL
           /\ NumNL(Frame(m, 1)) = 1
           /\ Decodes(Strip(Frame(m, 1)))
    /\ (last.conn # "none" /\ last.embedded) =>
           /\ ~last.decoded
           /\ last.response = Error("Invalid JSON")

(* The message codec: json.dumps and json.loads over the text as a        *)
(* sequence of JSON tokens.                                                *)

Tok(k) == [k |-> k]
StrTok(s) == [k |-> "string", v |-> s]
NumTok(n) == [k |-> "number", v |-> n]

\* an encoder that writes the Python literals (str(payload))
PyLiteral(v) ==
    IF v.t = "null" THEN Tok("None") ELSE IF v.v THEN Tok("True") ELSE Tok("False")

\* json.dumps of None, True and False
JsonLiteral(v) ==
    IF v.t = "null" THEN Tok("null") ELSE IF v.v THEN Tok("true") ELSE Tok("false")

RECURSIVE dumps(_)
RECURSIVE DumpMembers(_, _)
RECURSIVE DumpNumbers(_)
RECURSIVE DumpItems(_)

\* json.dumps: strings are written quoted and escaped (a newline inside a
\* string is written as the two characters \n), so that no token holds a
\* raw newline
dumps(v) ==
    CASE v.t \in {"null", "bool"} -> <<JsonLiteral(v)>>
      [] v.t = "num" -> <<NumTok(v.v)>>
      [] v.t = "str" -> <<StrTok(v.v)>>
      [] v.t = "list" -> <<Tok("[")>> \o DumpItems(v.v) \o <<Tok("]")>>
      [] v.t = "obj" -> <<Tok("{")>> \o DumpMembers(v.v, DOMAIN v.v) \o <<Tok("}")>>

\* the items of a list of values
DumpItems(s) ==
    IF s = <<>> THEN <<>>
    ELSE dumps(Head(s)) \o (IF Len(s) > 1 THEN <<Tok(",")>> ELSE <<>>)
         \o DumpItems(Tail(s))

\* the items of a list of numbers (positions are carried as integers)
DumpNumbers(s) ==
    IF s = <<>> THEN <<>>
    ELSE <<NumTok(Head(s))>> \o (IF Len(s) > 1 THEN <<Tok(",")>> ELSE <<>>)
         \o DumpNumbers(Tail(s))

\* the members of a dict, in its iteration order
DumpMembers(f, keys) ==
    IF keys = {} THEN <<>>
    ELSE LET k == CHOOSE key \in keys : TRUE
             value == IF k = "positions" /\ f[k].t = "list"
                      THEN <<Tok("[")>> \o DumpNumbers(f[k].v) \o <<Tok("]")>>
                      ELSE dumps(f[k])
         IN <<StrTok(k), Tok(":")>> \o value
            \o (IF keys # {k} THEN <<Tok(",")>> ELSE <<>>)
            \o DumpMembers(f, keys \ {k})

\* the outcome of the decoder on a text: a value and the tokens after it
Fail == [ok |-> FALSE]
Parsed(v, rest) == [ok |-> TRUE, v |-> v, rest |-> rest]
Is(ts, k) == ts # <<>> /\ Head(ts).k = k

RECURSIVE ParseValue(_)
RECURSIVE ParseItems(_, _)
RECURSIVE ParseMembers(_, _)

\* the JSON decoder on the tokens of a text
ParseValue(ts) ==
    IF ts = <<>> THEN Fail
    ELSE LET tk == Head(ts) IN
         CASE tk.k = "null" -> Parsed(Null, Tail(ts))
           [] tk.k = "true" -> Parsed(Bool(TRUE), Tail(ts))
           [] tk.k = "false" -> Parsed(Bool(FALSE), Tail(ts))
           [] tk.k = "number" -> Parsed(Num(tk.v), Tail(ts))
           [] tk.k = "string" -> Parsed(Str(tk.v), Tail(ts))
           [] tk.k = "[" ->
                IF Is(Tail(ts), "]") THEN Parsed(List(<<>>), Tail(Tail(ts)))
                ELSE ParseItems(Tail(ts), <<>>)
           [] tk.k = "{" ->
                IF Is(Tail(ts), "}") THEN Parsed(EmptyObj, Tail(Tail(ts)))
                ELSE ParseMembers(Tail(ts), <<>>)
           [] OTHER -> Fail

\* the items of an array; a number among them is carried as an integer
ParseItems(ts, acc) ==
    LET e == ParseValue(ts) IN
    IF ~e.ok THEN Fail
    ELSE LET acc2 == Append(acc, IF e.v.t = "num" THEN e.v.v ELSE e.v)
         IN IF Is(e.rest, ",") THEN ParseItems(Tail(e.rest), acc2)
            ELSE IF Is(e.rest, "]") THEN Parsed(List(acc2), Tail(e.rest))
            ELSE Fail

\* the members of an object; of two members of one name the later wins
ParseMembers(ts, acc) ==
    IF ~(Is(ts, "string") /\ Is(Tail(ts), ":")) THEN Fail
    ELSE LET e == ParseValue(Tail(Tail(ts))) IN
         IF ~e.ok THEN Fail
         ELSE LET acc2 == (Head(ts).v :> e.v) @@ acc
              IN IF Is(e.rest, ",") THEN ParseMembers(Tail(e.rest), acc2)
                 ELSE IF Is(e.rest, "}") THEN Parsed(Obj(acc2), Tail(e.rest))
                 ELSE Fail

\* json.loads: one value and nothing after it, or JSONDecodeError
loads(ts) ==
    LET e == ParseValue(ts) IN IF e.ok /\ e.rest = <<>> THEN e ELSE Fail

\* data = json.dumps(payload) + "\n"
encode(m) == dumps(m) \o <<Tok("\n")>>

RECURSIVE StripText(_)
\* .strip() of a text: the whitespace at its ends is dropped
StripText(ts) ==
    IF Is(ts, "\n") THEN StripText(Tail(ts))
    ELSE IF ts # <<>> /\ ts[Len(ts)].k = "\n"
         THEN StripText(SubSeq(ts, 1, Len(ts) - 1))
         ELSE ts

\* json.loads(data.decode('utf-8').strip())
decode(ts) == loads(StripText(ts))

\* the frame without its trailing delimiter
Undelimited(frame) == SubSeq(frame, 1, Len(frame) - 1)

\* the messages built by the client from the arguments of its callers
ClientMsgs ==
    {auth_payload(tk) : tk \in {DEFAULT_TOKEN, WRONG_TOKEN}}
    \cup {ping_payload(tk) : tk \in {DEFAULT_TOKEN, WRONG_TOKEN}}
    \cup {call_payload(DEFAULT_TOKEN, fa[1], fa[2]) : fa \in CallArgs}
    \cup {call_payload(WRONG_TOKEN, "EmergencyStop", Null)}
    \cup {sequence_payload(DEFAULT_TOKEN, q) :
            q \in SeqsUpTo(SeqCmds \ {Num(7)}, MaxCmds)}

\* C31: for every message m built by the client (auth, ping, call with an
\* args mapping, sequence with a commands list), decoding the encoded frame
\* without its trailing delimiter succeeds and gives back a message equal
\* to m.  It is checked on the message of each iteration of the worker.
C31_RoundTrip ==
    (last # NoIteration /\ last.decoded /\ last.message \in ClientMsgs)
        => LET r == decode(Undelimited(encode(last.message)))
           IN r.ok /\ r.v = last.message

\* the worker handled a call and a sequence built by the client whose
\* encodings hold numbers, a list, a nested mapping and a literal
C31_Witness ==
    /\ last # NoIteration /\ last.decoded
    /\ last.message \in
         {call_payload(DEFAULT_TOKEN, "SetDO",
                       Obj([pin |-> Num(0), value |-> Bool(FALSE)])),
          sequence_payload(DEFAULT_TOKEN, <<Cmd("MoveJ", MoveArgs(Target6))>>)}
    /\ decode(Undelimited(encode(last.message))).ok
    /\ Len(encode(last.message)) > 10

\* the public methods that ask the server to execute commands
Commands == {"call", "sequence", "move_j", "move_l"}

\* the failures of the receive loop that _send_recv retries: the peer
\* closed, a socket error or the read timeout, a line that is no JSON
TransportFailures == {"eof", "error", "garbled"}

\* C32: for one invocation of call() or sequence(), at most two request
\* frames reach the server, so that it starts the command at most twice over
\* all connections; there are two only when the first attempt ended in a
\* transport failure (peer closed, socket error or read timeout, undecodable
\* response) after its frame had been sent, and the one reconnect followed.
C32_AtMostTwice ==
    link.op \in Commands =>
        /\ link.sent <= 2
        /\ link.sent = 2 =>
               /\ link.reconnects = 1
               /\ link.err \in Retryable
               /\ link.lost \in TransportFailures

\* the read of the first attempt timed out while the worker of the old
\* connection had not ended, and the request has been sent again on the new
\* connection
C32_Witness ==
    /\ link.op = "call"
    /\ link.sent = 2
    /\ link.lost = "error"
    /\ link.busy
    /\ link.pc = "recv"

\* C33: every call or sequence frame the client writes on a connection is
\* written after the auth exchange on that same connection returned status
\* ok, on the first attempt and on the retry after a reconnect alike; hence,
\* the tokens of client and server being equal, the worker never takes the
\* "Authentication required" branch for a frame of the client.
C33_AuthBeforeCommands ==
    /\ (link.pc = "send" /\ link.ctx \in {"first", "second"} /\ link.socket = "open")
           => link.sockAuth
    /\ link.route # "auth_required"

\* the retry of a call reached the worker of the new connection, which
\* dispatched it
C33_Witness ==
    /\ link.op = "call"
    /\ link.ctx = "second"
    /\ link.reconnects = 1
    /\ link.sockAuth
    /\ link.route = "call"

\* connect() was called by the application and has returned
ConnectReturned == link.op = "connect" /\ link.pc = "idle" /\ link.api # NoOutcome

\* C34: in every state the client reaches by connect, disconnect, ping,
\* call, sequence and move operations, connected = true implies that the
\* session holds a socket; and when connect() has returned, connected is
\* true exactly when the auth exchange on the socket it opened returned
\* status ok, and connect() returned that same truth value.
C34_ConnectedHasSocket ==
    /\ link.connected => link.socket = "open"
    /\ ConnectReturned =>
           /\ link.connected <=> link.authed
           /\ link.authed => link.sockAuth /\ link.connects = 1
           /\ link.api = Returned(Bool(link.connected))

\* connect() opened a socket, the auth exchange on it was refused, and it
\* returned false: the session holds a socket and is not connected
C34_Witness ==
    /\ ConnectReturned
    /\ link.authRefused
    /\ link.socket = "open"
    /\ ~link.connected
    /\ link.api = Returned(Bool(FALSE))

\* the worker of connection c reads a non-empty chunk in this step
Reads(c) == status[c] # "free" /\ Len(c2s'[c]) < Len(c2s[c])

\* C35: for every non-empty chunk a worker reads, it sends exactly one
\* response frame on its connection before it reads again, whether the
\* chunk decoded to a message, did not decode or raised while it was
\* processed (the one exception ends the loop: a send that fails); and the
\* worker sends no frame that a read did not trigger.
C35_OneResponsePerRead ==
    [][\A c \in Conns :
          /\ Reads(c) => \/ nreplied'[c] = nreplied[c] + 1
                         \/ status'[c] = "free"
          /\ nreplied'[c] > nreplied[c] =>
                 /\ Reads(c)
                 /\ nreplied'[c] = nreplied[c] + 1
                 /\ Len(s2c'[c]) = Len(s2c[c]) + 1]_vars

\* the worker has answered two reads by one frame each, the later one a
\* chunk that raised while it was processed
C35_Witness ==
    /\ last # NoIteration
    /\ last.decoded
    /\ last.response = Error("Processing error")
    /\ nreplied["c1"] = 2
    /\ nrecv["c1"] + Len(s2c["c1"]) = 2

IsSafety(e) == e.op \in {"emergency_stop", "reset_robot"}

\* the EmergencyStop and ResetRobot operations an iteration completed, in
\* the order of their completion
SafetyCalls(calls) == SelectSeq(calls, IsSafety)

\* the robot_state the simulator assigns in the operation
StateAfter(op) == IF op = "emergency_stop" THEN "EMERGENCY_STOPPED" ELSE "IDLE"

\* the iteration this step takes, on whichever connection
Taken == IF last' # last /\ last' # NoIteration THEN last'.calls ELSE <<>>

CallOf(name) ==
    /\ Processed
    /\ last.route = "call"
    /\ Get(last.message, "function") = Str(name)
    /\ GetD(last.message, "args", EmptyObj).t = "obj"

ArgOf(key) == Get(GetD(last.message, "args", EmptyObj), key)

\* the call was answered status=error and no backend operation was invoked
RefusedUnexecuted ==
    RGet(last.response, "status") = "error" /\ BackendCalls(last.calls) = <<>>

\* C37: SetDO is answered status=error without invoking the backend exactly
\* when pin or value is absent or null; pin 0 and value false count as
\* present, are passed to the backend and are echoed in the pin and value
\* fields of the ok response.  GetDI is answered status=error without
\* invoking the backend exactly when pin is absent or null.
C37_PinAndValue ==
    /\ CallOf("SetDO") =>
           /\ RefusedUnexecuted <=> (ArgOf("pin") = Null \/ ArgOf("value") = Null)
           /\ RefusedUnexecuted =>
                  last.response = Error("SetDO requires pin and value")
           /\ ~RefusedUnexecuted =>
                  BackendCalls(last.calls) = Call("set_digital_output", 1)
           /\ RGet(last.response, "status") = "ok" =>
                  /\ last.response.pin = ArgOf("pin")
                  /\ last.response.value = ArgOf("value")
                  /\ robot.digital_outputs[ArgOf("pin")] = ArgOf("value")
    /\ CallOf("GetDI") =>
           /\ RefusedUnexecuted <=> ArgOf("pin") = Null
           /\ RefusedUnexecuted => last.response = Error("GetDI requires pin")
           /\ ~RefusedUnexecuted =>
                  /\ BackendCalls(last.calls) = Call("get_digital_input", 1)
                  /\ RGet(last.response, "status") = "ok"
                  /\ last.response.pin = ArgOf("pin")

\* SetDO with pin 0 and value false was executed and echoed
C37_Witness ==
    /\ CallOf("SetDO")
    /\ ArgOf("pin") = Num(0)
    /\ ArgOf("value") = Bool(FALSE)
    /\ last.response = [status |-> "ok", message |-> "DO set",
                        pin |-> Num(0), value |-> Bool(FALSE)]
    /\ robot.digital_outputs[Num(0)] = Bool(FALSE)

\* one of the operations wrapped by _execute_safely has ended
WrappedEnded == arm.pc = "done" /\ arm.op \in ArmOps

\* the wrapped function returned a mapping
InnerMapping == arm.inner.kind = "returned" /\ arm.inner.value.t = "obj"

\* C38: every operation wrapped by _execute_safely (home,
\* move_to_safe_position, test_move_j, test_move_l, test_gripper,
\* emergency_stop, reset_robot) returns and never raises, and what it
\* returns is {status=ok, function, data} or {status=error, function,
\* error}: the first, with the underlying result as data, when that result
\* has status=ok; the second when the result has another status (error is
\* its message) or when validation, the link or the transport raised
\* (error is the text of the exception).  (A result that is no mapping is
\* wrapped as data of a status=ok envelope.)
C38_NormalizedEnvelope ==
    WrappedEnded =>
        /\ arm.ret.kind = "returned"
        /\ DOMAIN arm.ret.value \in {{"status", "function", "data"},
                                     {"status", "function", "error"}}
        /\ arm.ret.value.function = FuncName(arm.op, arm.args)
        /\ arm.ret.value.status = "ok" => "data" \in DOMAIN arm.ret.value
        /\ arm.ret.value.status = "error" => "error" \in DOMAIN arm.ret.value
        /\ arm.ret.value.status \in {"ok", "error"}
        /\ (InnerMapping /\ Get(arm.inner.value, "status") = Str("ok")) =>
               arm.ret.value = OkEnvelope(FuncName(arm.op, arm.args), arm.inner.value)
        /\ (InnerMapping /\ Get(arm.inner.value, "status") # Str("ok")) =>
               /\ arm.ret.value.status = "error"
               /\ arm.ret.value.error =
                      GetD(arm.inner.value, "message", UnknownError)
        /\ arm.inner.kind = "raised" =>
               arm.ret.value = ErrorEnvelope(FuncName(arm.op, arm.args),
                                             Str(arm.inner.exc))

\* test_move_j raised ValueError for five positions before it called the
\* link, and returned the error envelope
C38_Witness ==
    /\ WrappedEnded
    /\ arm.op = "test_move_j"
    /\ arm.args.positions = Five
    /\ arm.calls = <<>>
    /\ arm.inner = Raised("ValueError")
    /\ arm.ret = Returned(ErrorEnvelope("test_move_j", Str("ValueError")))

\* move_sequence has ended on a list of waypoints that are all mappings
SequenceEnded ==
    /\ arm.pc = "done"
    /\ arm.op = "move_sequence"
    /\ \A i \in 1..Len(arm.waypoints) : arm.waypoints[i].t = "obj"

KnownType(wp) == GetD(wp, "type", Str("joint")) \in {Str("joint"), Str("linear")}

\* C39: move_sequence executes the waypoints in list order and stops at the
\* first one whose result has a status other than ok, a waypoint of unknown
\* type included, for which the link is not called: no later waypoint is
\* sent to the link, executed_waypoints is the number of results,
\* total_waypoints the number of waypoints given, and the envelope returned
\* has status=ok even when a waypoint failed.
C39_StopsAtFirstFailure ==
    SequenceEnded =>
        /\ arm.ret.kind = "returned"
        /\ arm.ret.value.status = "ok"
        /\ arm.ret.value.total_waypoints = Len(arm.waypoints)
        /\ arm.ret.value.executed_waypoints = Len(arm.ret.value.results)
        /\ LET results == arm.ret.value.results
               n == Len(arm.ret.value.results)
           IN /\ n <= Len(arm.waypoints)
              /\ \A j \in 1..n : results[j].waypoint = j - 1
              /\ \A j \in 1..n : j < n => results[j].result.status = "ok"
              /\ n < Len(arm.waypoints) =>
                     n >= 1 /\ results[n].result.status # "ok"
              /\ \A k \in 1..Len(arm.calls) :
                     /\ arm.calls[k].wp \in 1..n
                     /\ \A l \in 1..Len(arm.calls) :
                            k < l => arm.calls[k].wp < arm.calls[l].wp
              /\ \A j \in 1..n :
                     ~KnownType(arm.waypoints[j]) =>
                         /\ results[j].result.status = "error"
                         /\ \A k \in 1..Len(arm.calls) : arm.calls[k].wp # j

\* of three waypoints the first was moved to, the second was of unknown
\* type, and the third, a move the link would have done, was never sent
C39_Witness ==
    /\ SequenceEnded
    /\ Len(arm.waypoints) = 3
    /\ ~KnownType(arm.waypoints[2])
    /\ arm.waypoints[3] =
           Obj([type |-> Str("linear"), positions |-> Target6, speed |-> Num(MinSpeed)])
    /\ arm.ret.value.status = "ok"
    /\ arm.ret.value.executed_waypoints = 2
    /\ arm.ret.value.results[1].result.status = "ok"
    /\ Len(arm.calls) = 1
    /\ arm.calls[1].wp = 1

\* a public method of the client has returned or raised
Ended(ops) == link.pc = "idle" /\ link.op \in ops

\* C12: one invocation of the client's request path terminates, however
\* the server and the network behave.  (It makes at most one reconnect and
\* writes the payload at most twice, but its receive loop reads on for as
\* long as chunks without a delimiter arrive.)
C12_Terminates == (link.pc # "idle") ~> (link.pc = "idle")

\* C13: when a request was retried after the reconnect and failed again,
\* whatever the cause, the session is left disconnected: connected is
\* false when the error reaches the caller.
C13_FailedRetryDisconnects ==
    (/\ Ended(Requests \cup Moves)
     /\ link.inner.kind = "raised"
     /\ link.reconnects = 1) => ~link.connected

\* C14: when the server has closed the session's socket and stays
\* unreachable, the next call makes exactly one reconnect attempt and then
\* raises: it returns no response.
C14_OneReconnectThenRaise ==
    (Ended({"call"}) /\ link.down) =>
        /\ link.api.kind = "raised"
        /\ link.reconnects = 1
        /\ link.connects = 1

\* C15: ping never raises; it returns true exactly when _send_recv
\* returned a response with status=ok and pong=true, and false for every
\* other outcome.
C15_PingIsBoolean ==
    Ended({"ping"}) =>
        /\ link.api.kind = "returned"
        /\ link.api.value \in {Bool(TRUE), Bool(FALSE)}
        /\ (link.api.value = Bool(TRUE)) <=>
               /\ link.inner.kind = "returned"
               /\ link.inner.value.t = "obj"
               /\ Get(link.inner.value, "status") = Str("ok")
               /\ Get(link.inner.value, "pong") = Bool(TRUE)

\* ping returned false after the transport failed on both attempts
C15_Witness ==
    /\ Ended({"ping"})
    /\ link.api = Returned(Bool(FALSE))
    /\ link.inner.kind = "raised"
    /\ link.reconnects = 1
    /\ link.writes = 2

\* C16: when the reply to the auth message is not status=ok, connect fails
\* and leaves the session disconnected: connected is false and the socket
\* connect opened is no longer held.
C16_RefusedAuthReleasesSocket ==
    (Ended({"connect"}) /\ link.authRefused) =>
        /\ link.api = Returned(Bool(FALSE))
        /\ ~link.connected
        /\ link.socket = "None"

\* C17: disconnect never fails and leaves the session with no socket and
\* connected false, from every client state and also when close raises; a
\* second disconnect changes nothing.
C17_DisconnectIdempotent ==
    Ended({"disconnect"}) =>
        /\ link.api.kind = "returned"
        /\ link.socket = "None"
        /\ ~link.connected
        /\ (link.prev = "disconnect") =>
               link.before = [socket |-> link.socket, connected |-> link.connected]

\* disconnect was called again after a disconnect that closed a socket
C17_Witness ==
    /\ Ended({"disconnect"})
    /\ link.prev = "disconnect"
    /\ link.again
    /\ link.api.kind = "returned"
    /\ link.before = [socket |-> "None", connected |-> FALSE]

\* C18: a request issued while the session is not connected runs connect,
\* auth exchange included, before anything else: the payload is written
\* only after a connect returned true, and when the connect fails the
\* request ends with a link error and the payload was never written.
C18_ConnectsFirst ==
    (link.op \in Requests /\ ~link.before.connected) =>
        /\ (link.writes > 0 \/ link.ctx \in {"first", "second"}) =>
               (link.authed /\ link.connects >= 1)
        /\ (link.pc = "idle" /\ link.reconnects = 0 /\ ~link.authed) =>
               /\ link.inner =
                      Raised("DartLinkException: cannot establish connection")
               /\ link.writes = 0
               /\ link.connects = 1

\* the auth exchange of the connect a request ran was refused, and the
\* request failed without its payload being written
C18_Witness ==
    /\ Ended(Requests)
    /\ ~link.before.connected
    /\ link.authRefused
    /\ link.inner = Raised("DartLinkException: cannot establish connection")
    /\ link.writes = 0

\* the arguments of the move fail the pre-flight check
BadMoveArgs ==
    \/ link.args.len # 6
    \/ link.args.speed < 1
    \/ link.args.speed > 100

\* C19: move_j and move_l raise an argument error exactly when positions
\* has not 6 components or speed lies outside [0.01, 1.0] (both ends are
\* accepted), and then nothing has happened: no connect, no write, socket
\* and connected as before.
C19_PreFlight ==
    (link.op \in Moves) =>
        /\ BadMoveArgs <=> (link.api = Raised("ValueError"))
        /\ BadMoveArgs =>
               /\ link.pc = "idle"
               /\ link.connects = 0
               /\ link.writes = 0
               /\ link.socket = link.before.socket
               /\ link.connected = link.before.connected

\* a move at speed 1.01 was refused on a connected session
C19_Witness ==
    /\ Ended(Moves)
    /\ link.args = [len |-> 6, speed |-> 101]
    /\ link.api = Raised("ValueError")
    /\ link.before.connected
    /\ link.connected

====
